---- MODULE Spec2Model ----
(***************************************************************************)
(* Verification model of the Exograph runtime core:                        *)
(*   - the transaction engine (libs/exo-sql/src/sql/transaction.rs):       *)
(*     TransactionScript, TransactionStep, run_query and its retry loop;   *)
(*   - retry_backoff_ms as a pure function;                                *)
(*   - resolve_operation (postgres-graphql-resolver) and response assembly;*)
(*   - the selection planner's map_field.                                  *)
(* Each subsystem has its own specification; the variables of the other    *)
(* subsystems stay at their idle values.                                   *)
(***************************************************************************)
EXTENDS Integers, Sequences, FiniteSets, TLC

(***************************************************************************)
(* Bounds of the model                                                     *)
(***************************************************************************)
\* longest TransactionScript built by add_step
MaxSteps == 3
\* most rows one query returns
MaxRows == 2
\* largest value of EXO_DB_RETRY_MAX the environment sets
MaxRetryEnv == 2
\* width in bits of the model's u64 (the saturation points scale with it)
WordBits == 10
\* EXO_DB_RETRY_BASE_MS and EXO_DB_RETRY_MAX_MS of the transaction engine's environment
TxBaseMs == 1
TxMaxMs == 2
\* largest attempt number handed to retry_backoff_ms on its own
MaxAttemptArg == 12
\* base and max backoff values 0..MaxSmallMs are enumerated exhaustively
MaxSmallMs == 4
\* most computed-field scripts one post-processing pass invokes
MaxScripts == 2
\* most operations (top-level fields) one request resolves, one after the other
MaxOps == 2
\* most fields in the selection the planner is given
MaxFields == 2
\* map_field's nested calls are numbered 1..MaxResolveCalls; any one of them may fail
MaxResolveCalls == 2
\* most entries of the order-by object, or elements of the order-by list
MaxOrderByElems == 2
\* most entities in a response body that is post-processed
MaxEntities == 1
\* most GET /healthz requests one server handles
MaxHealthzRequests == 2
\* clients that check connections out of the pool
MaxClients == 2
\* largest max_size a pool is configured with
MaxPoolSize == 1
\* most advances of the clock
MaxTicks == 1
\* most variables an operation declares
MaxVariables == 2
\* largest depth limit; depths up to one more are checked
MaxDepth == 2
\* most depth checks one validation makes
MaxDepthChecks == 2
\* threads that call sentry::init
MaxThreads == 2
\* most calls of sentry::init one thread makes
MaxInitCalls == 2
\* most to_column_path calls of one descent
MaxPathCalls == 4
\* column ids a leaf link can name
MaxColumnIds == 2
\* relations a relation link can name
MaxRelationIds == 2
\* most steps of a transitive relation path
MaxTransitiveSteps == 3
\* most fields the selection of a post-processed operation holds
MaxSelected == 2

(***************************************************************************)
(* Program constants                                                       *)
(***************************************************************************)
DEFAULT_RETRY_MAX == 2
DEFAULT_RETRY_BASE_MS == 50
DEFAULT_RETRY_MAX_MS == 500

U64_MAX == 2^WordBits - 1

VARIABLES
    \* ---- transaction engine ----
    env,          \* process environment: EXO_DB_RETRY_MAX / _BASE_MS / _MAX_MS
    steps,        \* TransactionScript.steps
    ids,          \* the TransactionStepId returned by each add_step call, in call order
    txpc,         \* "build" | "loop" | "query" | "sleep" | "done"
    idx,          \* number of steps the for loop of execute has consumed
    results,      \* transaction_context.results
    pending,      \* concrete operations of the running step not yet completed
    attempt,      \* run_query's local `attempt`
    backoff_ms,   \* duration of the sleep in progress
    rq,           \* the run_query invocation in progress (or the last one)
    started,      \* for each step that started: its tag, the context it saw, its outcome
    ret,          \* the value returned by TransactionScript::execute
    \* ---- retry_backoff_ms on its own ----
    bk,           \* arguments and result of one call
    \* ---- resolve_operation ----
    request,      \* "running" | "panicked"
    frames,       \* the resolve_operation activations of the request, in call order
    locked,       \* request_context.system_context.transaction_holder is locked
    lock_log,     \* for each try_lock call, in order: was the lock free
    \* ---- selection planner ----
    plpc,             \* "check_access" | "content_select" | "done" | "panicked"
    selection,        \* the ValidatedFields compute_select plans
    operation_return_type, \* OperationReturnType of the query: "List" | "Optional"
    unauthorized_set, \* unauthorized_fields of the access check, as a set
    mapped,           \* the outcome of map_field for each field mapped so far
    select,           \* the value compute_select returns
    \* ---- order-by mapping ----
    obpc,             \* "start" | "object" | "list" | "done" | "panicked"
    ob_mapped,        \* the outcome of each order_by_pair / to_sql call of join_all
    ob_ret,           \* the value to_sql returns
    \* ---- computed-field post-processing ----
    cf_pc,            \* "entity" | "field" | "script" | "done"
    cf_selection,     \* the subfields selected on the entity
    cf_json_like,     \* entity_type.representation.is_json_like()
    cf_sql,           \* the entities as the SQL step produced them
    cf_items,         \* the entities as post-processing has rewritten them so far
    cf_item,          \* index of the entity process_entity works on
    cf_pos,           \* index of the selected field process_entity works on
    cf_log,           \* the fields handled so far, see Handled
    cf_ret,           \* the value process_value returns
    \* ---- GET /healthz ----
    hz_pc, \* position of the /healthz handler
    hz_env, \* the process environment the handler reads
    hz_requests, \* GET /healthz requests handled or in progress
    hz_settings, \* query, variables and pointer of the check in progress
    hz_payload, \* body of the GraphQL request sent to the router
    hz_response, \* what system_router.route returned
    hz_http, \* the HTTP response of /healthz
    \* ---- database pool ----
    po_config, \* the PoolConfig the pool was built with
    po_now, \* the clock, in seconds
    po_ticks, \* how often the clock has advanced
    po_slots, \* the idle connections, oldest return first
    po_size, \* connections the pool owns, idle or checked out
    po_users, \* callers of get() that wait for or hold a connection
    po_permits, \* free permits of the pool semaphore
    po_clients, \* each client: its position in get_client and what it holds
    po_logged, \* the pool status get_client logged last
    \* ---- operation validator ----
    va_pc, \* position of validate
    va_schema, \* the root types the schema defines
    va_ty, \* operation.node.ty
    va_has_variables, \* whether the request came with a variables map
    va_declared, \* number of variable definitions of the operation
    va_examined, \* number of declared variables examined so far
    va_var, \* the variable examined last: name, type, supplied value, outcome
    va_limits, \* normal and introspection query depth limits
    va_check, \* the last depth check: its arguments and its result
    va_checks, \* depth checks made
    va_ret, \* what validate returned
    \* ---- sentry::init ----
    se_env, \* the environment init is called with
    se_guard, \* SENTRY_GUARD: empty, or the ClientInitGuard it was set to
    se_threads, \* each thread: its position in init, the calls it made, whether the guard was set at its last call
    se_inits, \* invocations of sentry::init of the SDK
    se_dropped, \* ClientInitGuards dropped because SENTRY_GUARD was already set
    \* ---- column-path composition ----
    cp_path, \* the column path composed so far
    cp_call, \* the last to_column_path call: parent, link, result
    cp_calls, \* to_column_path calls made
    \* ---- map_transitive_field ----
    tr_pc, \* position of the call: call, done
    tr_transitive, \* the TransitiveRelation of the selected field
    tr_field, \* the selected field
    tr_ret, \* what map_transitive_field returned
    \* ---- apply_computed_fields_to_body ----
    np_pc, \* position of apply_computed_fields_to_body
    np_json_like, \* the entity types whose representation is JSON-like
    np_selection, \* field.subfields, the selection of the operation
    np_raw, \* the body the SQL step produced
    np_body, \* response.body
    np_needs, \* what needs_postprocess returned, once called
    np_scripts, \* computed-field scripts invoked
    np_ret \* what apply_computed_fields_to_body returned

txVars == <<env, steps, ids, txpc, idx, results, pending, attempt, backoff_ms, rq,
            started, ret>>
bkVars == <<bk>>
rsVars == <<request, frames, locked, lock_log>>
plVars == <<plpc, selection, operation_return_type, unauthorized_set, mapped, select>>
obVars == <<obpc, ob_mapped, ob_ret>>
cfVars == <<cf_pc, cf_selection, cf_json_like, cf_sql, cf_items, cf_item, cf_pos, cf_log,
            cf_ret>>
hzVars == <<hz_pc, hz_env, hz_requests, hz_settings, hz_payload, hz_response, hz_http>>
poVars == <<po_config, po_now, po_ticks, po_slots, po_size, po_users, po_permits, po_clients, po_logged>>
vaVars == <<va_pc, va_schema, va_ty, va_has_variables, va_declared, va_examined, va_var,
            va_limits, va_check, va_checks, va_ret>>
seVars == <<se_env, se_guard, se_threads, se_inits, se_dropped>>
cpVars == <<cp_path, cp_call, cp_calls>>
trVars == <<tr_pc, tr_transitive, tr_field, tr_ret>>
npVars == <<np_pc, np_json_like, np_selection, np_raw, np_body, np_needs, np_scripts, np_ret>>
vars == <<txVars, bkVars, rsVars, plVars, obVars, cfVars, hzVars, poVars, vaVars, seVars, cpVars, trVars, npVars>>
otherThanTx == <<bkVars, rsVars, plVars, obVars, cfVars, hzVars, poVars, vaVars, seVars, cpVars, trVars, npVars>>
otherThanBk == <<txVars, rsVars, plVars, obVars, cfVars, hzVars, poVars, vaVars, seVars, cpVars, trVars, npVars>>
otherThanRs == <<txVars, bkVars, plVars, obVars, cfVars, hzVars, poVars, vaVars, seVars, cpVars, trVars, npVars>>
otherThanPl == <<txVars, bkVars, rsVars, obVars, cfVars, hzVars, poVars, vaVars, seVars, cpVars, trVars, npVars>>
otherThanOb == <<txVars, bkVars, rsVars, plVars, cfVars, hzVars, poVars, vaVars, seVars, cpVars, trVars, npVars>>
otherThanCf == <<txVars, bkVars, rsVars, plVars, obVars, hzVars, poVars, vaVars, seVars, cpVars, trVars, npVars>>
otherThanHz == <<txVars, bkVars, rsVars, plVars, obVars, cfVars, poVars, vaVars, seVars, cpVars, trVars, npVars>>
otherThanPo == <<txVars, bkVars, rsVars, plVars, obVars, cfVars, hzVars, vaVars, seVars, cpVars, trVars, npVars>>
otherThanVa == <<txVars, bkVars, rsVars, plVars, obVars, cfVars, hzVars, poVars, seVars, cpVars, trVars, npVars>>
otherThanSe == <<txVars, bkVars, rsVars, plVars, obVars, cfVars, hzVars, poVars, vaVars, cpVars, trVars, npVars>>
otherThanCp == <<txVars, bkVars, rsVars, plVars, obVars, cfVars, hzVars, poVars, vaVars, seVars, trVars, npVars>>
otherThanTr == <<txVars, bkVars, rsVars, plVars, obVars, cfVars, hzVars, poVars, vaVars, seVars, cpVars, npVars>>
otherThanNp == <<txVars, bkVars, rsVars, plVars, obVars, cfVars, hzVars, poVars, vaVars, seVars, cpVars, trVars>>

(***************************************************************************)
(* Values                                                                  *)
(***************************************************************************)
Ok(v) == [tag |-> "Ok", val |-> v]
Err(e) == [tag |-> "Err", err |-> e]
NoRet == [tag |-> "none"]

Min(a, b) == IF a <= b THEN a ELSE b
Max(a, b) == IF a >= b THEN a ELSE b

\* SQLOperation variants
SQLOperations == {"Select", "Insert", "Update", "Delete"}

\* SQLSTATE codes of tokio_postgres::error::SqlState used by the code, one other
\* SQLSTATE (unique_violation) and a client-side error that carries no SQLSTATE
ADMIN_SHUTDOWN == "57P01"
CRASH_SHUTDOWN == "57P02"
CANNOT_CONNECT_NOW == "57P03"
CONNECTION_FAILURE == "08006"
CONNECTION_DOES_NOT_EXIST == "08003"
UNIQUE_VIOLATION == "23505"
DbErrors == { [db |-> TRUE, code |-> c] :
                c \in {ADMIN_SHUTDOWN, CRASH_SHUTDOWN, CANNOT_CONNECT_NOW,
                       CONNECTION_FAILURE, CONNECTION_DOES_NOT_EXIST, UNIQUE_VIOLATION} }
ClientError == [db |-> FALSE, code |-> "none"]
PgErrors == DbErrors \cup {ClientError}

\* the rows a statement returns: n rows, each identified by the statement (the step
\* it was built for and its position among the step's operations)
Rows(stmt, n) == [i \in 1..n |-> [stmt |-> stmt, row |-> i]]

(***************************************************************************)
(* DatabaseError values                                                    *)
(***************************************************************************)
Delegate(e) == [type |-> "Delegate", source |-> e]
with_context(e, context) == [type |-> "WithContext", context |-> context, inner |-> e]
Precheck(n) == [type |-> "Precheck", expected |-> 1, got |-> n]
Transaction(msg) == [type |-> "Transaction", msg |-> msg]

(***************************************************************************)
(* RetryConfig                                                             *)
(***************************************************************************)
\* std::env::var(..).ok().and_then(parse).unwrap_or(default)
\* an unset (or unparsable) variable is <<>>, a parsed one is <<n>>
env_or(v, default) == IF v = <<>> THEN default ELSE v[1]

from_env(e) ==
    [max_retries |-> env_or(e.EXO_DB_RETRY_MAX, DEFAULT_RETRY_MAX),
     base_backoff_ms |-> env_or(e.EXO_DB_RETRY_BASE_MS, DEFAULT_RETRY_BASE_MS),
     max_backoff_ms |-> env_or(e.EXO_DB_RETRY_MAX_MS, DEFAULT_RETRY_MAX_MS)]

\* mutant: the multiplication wraps instead of saturating
saturating_mul_wrapping(a, b) == (a * b) % (U64_MAX + 1)

\* u64 arithmetic
saturating_mul(a, b) == IF a * b > U64_MAX THEN U64_MAX ELSE a * b

RECURSIVE saturating_pow2(_)
saturating_pow2(n) == IF n = 0 THEN 1 ELSE saturating_mul(2, saturating_pow2(n - 1))

saturating_sub(a, b) == IF a >= b THEN a - b ELSE 0

backoff_capped(attempt_, base_ms, max_ms) ==
    LET exp == saturating_mul(base_ms, saturating_pow2(saturating_sub(attempt_, 1)))
    IN  Max(Min(exp, max_ms), 1)

\* the values retry_backoff_ms can return: one per value of the random jitter
retry_backoff_ms(attempt_, base_ms, max_ms) ==
    LET capped == backoff_capped(attempt_, base_ms, max_ms)
    IN  { (capped \div 2) + jitter : jitter \in 0..(capped \div 2) }

\* mutant: an Insert counts as read-only too
operation_is_read_only_insert(operation) == operation \in {"Select", "Insert"}

operation_is_read_only(operation) == operation = "Select"

\* mutant: every database error is retryable
is_retryable_db_error_any(err) == err.db

is_retryable_db_error(err) ==
    /\ err.db
    /\ err.code \in {ADMIN_SHUTDOWN, CRASH_SHUTDOWN, CANNOT_CONNECT_NOW,
                     CONNECTION_FAILURE, CONNECTION_DOES_NOT_EXIST}

allow_retry(retry_config, operation) ==
    retry_config.max_retries > 0 /\ operation_is_read_only(operation)

\* mutant: one retry too many
gives_up_late(retryable, attempt_, retry_config) ==
    ~retryable \/ attempt_ > retry_config.max_retries

\* run_query's test for giving up: `!retryable || attempt >= retry_config.max_retries`
gives_up(retryable, attempt_, retry_config) ==
    ~retryable \/ attempt_ >= retry_config.max_retries

(***************************************************************************)
(* TransactionScript                                                       *)
(***************************************************************************)
\* the steps a caller can hand to add_step when the script already holds n steps;
\* a Template or Filter step refers to an earlier step of the script
StepChoices(n) ==
    { [kind |-> "Concrete", op |-> o, prev |-> 0] : o \in SQLOperations }
    \cup { [kind |-> "Dynamic", op |-> "Select", prev |-> 0] }
    \cup { [kind |-> "Precheck", op |-> "Select", prev |-> 0] }
    \cup { [kind |-> "Template", op |-> "Update", prev |-> p] : p \in 0..(n - 1) }
    \cup { [kind |-> "Filter", op |-> "Select", prev |-> p] : p \in 0..(n - 1) }

\* TransactionScript::add_step: the new step vector and the id returned
add_step(s, step) == [steps |-> Append(s, step), id |-> Len(s)]

\* mutant: any non-empty script asks for a transaction
needs_transaction_nonempty(s) == Len(s) > 0

needs_transaction(s) == Len(s) > 1

\* TransactionContext::row_count
row_count(ctx, step_id) == Len(ctx[step_id + 1])

\* TemplateSQLOperation::resolve: one concrete operation per row of the prior step
TemplateSQLOperation_resolve(op, prev_step_id, ctx) ==
    [i \in 1..row_count(ctx, prev_step_id) |-> op]

\* mutant: a template resolves to one operation however many rows the prior step has
resolve_template_once(step, ctx) ==
    CASE step.kind = "Concrete" -> <<step.op>>
      [] step.kind = "Template" ->
           IF row_count(ctx, step.prev) = 0 THEN <<>> ELSE <<step.op>>
      [] step.kind = "Filter" -> <<"Select">>
      [] step.kind = "Dynamic" -> <<step.op>>
      [] step.kind = "Precheck" -> <<"Select">>

\* the concrete operations a step resolves to against the context:
\* TemplateTransactionStep::resolve, TemplateFilterOperation::resolve,
\* DynamicTransactionStep::resolve
resolve(step, ctx) ==
    CASE step.kind = "Concrete" -> <<step.op>>
      [] step.kind = "Template" -> TemplateSQLOperation_resolve(step.op, step.prev, ctx)
      [] step.kind = "Filter" -> <<"Select">>
      [] step.kind = "Dynamic" -> <<step.op>>
      [] step.kind = "Precheck" -> <<"Select">>

\* mutant: only an empty result fails the precheck
precheck_result_nonempty(rows) ==
    IF Len(rows) = 0 THEN Err(Precheck(Len(rows))) ELSE Ok(rows)

\* the Precheck arm of TransactionStep::execute, after run_query returned rows
precheck_result(rows) ==
    IF Len(rows) # 1 THEN Err(Precheck(Len(rows))) ELSE Ok(rows)

\* mutant: the result is put in front
push_result_front(ctx, result) == <<result>> \o ctx

\* transaction_context.results.push(result)
push_result(ctx, result) == Append(ctx, result)

\* mutant: next() instead of next_back()
execute_return_first(ctx) ==
    IF ctx = <<>> THEN Err(Transaction("")) ELSE Ok(ctx[1])

\* transaction_context.results.into_iter().next_back().ok_or_else(..)
execute_return(ctx) ==
    IF ctx = <<>> THEN Err(Transaction("")) ELSE Ok(ctx[Len(ctx)])

\* mutant: the error run_query returns does not carry the error of the query
query_error_without_source(err) ==
    Err(with_context(Delegate(ClientError), "Database operation failed"))

\* the error run_query returns
query_error(err) == Err(with_context(Delegate(err), "Database operation failed"))

\* run_query up to its first client.query_typed call
begin_query(operation, stmt, e) ==
    [op |-> operation, stmt |-> stmt, config |-> from_env(e), calls |-> 1, sleeps |-> 0,
     lastErr |-> ClientError, failed |-> FALSE, out |-> NoRet]

IdleRq == [op |-> "Select", stmt |-> <<0, 0>>,
           config |-> from_env([EXO_DB_RETRY_MAX |-> <<>>,
              EXO_DB_RETRY_BASE_MS |-> <<>>, EXO_DB_RETRY_MAX_MS |-> <<>>]),
           calls |-> 0, sleeps |-> 0, lastErr |-> ClientError, failed |-> FALSE,
           out |-> NoRet]

TxInit ==
    /\ env \in [EXO_DB_RETRY_MAX : {<<>>} \cup { <<n>> : n \in 0..MaxRetryEnv },
                EXO_DB_RETRY_BASE_MS : {<<TxBaseMs>>},
                EXO_DB_RETRY_MAX_MS : {<<TxMaxMs>>}]
    /\ steps = <<>>
    /\ ids = <<>>
    /\ txpc = "build"
    /\ idx = 0
    /\ results = <<>>
    /\ pending = <<>>
    /\ attempt = 0
    /\ backoff_ms = 0
    /\ rq = IdleRq
    /\ started = <<>>
    /\ ret = NoRet

\* script.add_step(step)
AddStep ==
    /\ txpc = "build"
    /\ Len(steps) < MaxSteps
    /\ \E choice \in StepChoices(Len(steps)) :
         LET step == [kind |-> choice.kind, op |-> choice.op, prev |-> choice.prev,
                      tag |-> Len(ids)]
             r == add_step(steps, step)
         IN  /\ steps' = r.steps
             /\ ids' = Append(ids, r.id)
    /\ UNCHANGED <<env, txpc, idx, results, pending, attempt, backoff_ms, rq,
                   started, ret>>
    /\ UNCHANGED otherThanTx

\* script.execute(database, tx): the script is consumed and the context created
Execute ==
    /\ txpc = "build"
    /\ txpc' = "loop"
    /\ results' = <<>>
    /\ idx' = 0
    /\ UNCHANGED <<env, steps, ids, pending, attempt, backoff_ms, rq, started, ret>>
    /\ UNCHANGED otherThanTx

\* the for loop of execute takes the next step: TransactionStep::execute resolves it
\* and run_query issues the first query; a template that resolves to no operation
\* completes without a query
StepExecute ==
    /\ txpc = "loop"
    /\ idx < Len(steps)
    /\ LET step == steps[idx + 1]
           concrete == resolve(step, results)
       IN  /\ started' = Append(started,
                  [tag |-> step.tag, ctx |-> results,
                   out |-> IF concrete = <<>> THEN Ok(<<>>) ELSE NoRet])
           /\ IF concrete = <<>>
              THEN /\ results' = push_result(results, <<>>)
                   /\ idx' = idx + 1
                   /\ UNCHANGED <<txpc, pending, attempt, rq>>
              ELSE /\ pending' = concrete
                   /\ rq' = begin_query(Head(concrete), <<step.tag, 1>>, env)
                   /\ attempt' = 0
                   /\ txpc' = "query"
                   /\ UNCHANGED <<results, idx>>
    /\ UNCHANGED <<env, steps, ids, backoff_ms, ret>>
    /\ UNCHANGED otherThanTx

\* the for loop of execute is over: the last result is returned
ExecuteReturn ==
    /\ txpc = "loop"
    /\ idx = Len(steps)
    /\ ret' = execute_return(results)
    /\ txpc' = "done"
    /\ UNCHANGED <<env, steps, ids, idx, results, pending, attempt, backoff_ms, rq,
                   started>>
    /\ UNCHANGED otherThanTx

\* client.query_typed returns Ok(rows): run_query returns the rows and the step goes on
QueryOk ==
    /\ txpc = "query"
    /\ \E n \in 0..MaxRows :
         LET rows == Rows(rq.stmt, n)
             step == steps[idx + 1]
             res == IF step.kind = "Precheck" THEN precheck_result(rows) ELSE Ok(rows)
         IN  IF step.kind = "Template" /\ Len(pending) > 1
             THEN \* not the last substep: its rows are dropped, the next one is run
                  /\ pending' = Tail(pending)
                  /\ rq' = begin_query(Head(Tail(pending)), <<step.tag, rq.stmt[2] + 1>>, env)
                  /\ attempt' = 0
                  /\ UNCHANGED <<txpc, results, idx, ret, started>>
             ELSE IF res.tag = "Err"
             THEN /\ rq' = [rq EXCEPT !.out = Ok(rows)]
                  /\ started' = [started EXCEPT ![Len(started)].out = res]
                  /\ ret' = res
                  /\ txpc' = "done"
                  /\ UNCHANGED <<pending, attempt, results, idx>>
             ELSE /\ rq' = [rq EXCEPT !.out = Ok(rows)]
                  /\ started' = [started EXCEPT ![Len(started)].out = res]
                  /\ results' = push_result(results, res.val)
                  /\ idx' = idx + 1
                  /\ pending' = <<>>
                  /\ txpc' = "loop"
                  /\ UNCHANGED <<attempt, ret>>
    /\ UNCHANGED <<env, steps, ids, backoff_ms>>
    /\ UNCHANGED otherThanTx

\* client.query_typed returns Err(err): run_query returns the error, which every
\* step kind and execute propagate, or goes to sleep before the next attempt
QueryErr ==
    /\ txpc = "query"
    /\ \E err \in PgErrors :
         LET retryable == allow_retry(rq.config, rq.op) /\ is_retryable_db_error(err)
         IN  IF gives_up(retryable, attempt, rq.config)
             THEN /\ rq' = [rq EXCEPT !.lastErr = err, !.failed = TRUE,
                                      !.out = query_error(err)]
                  /\ started' = [started EXCEPT ![Len(started)].out = query_error(err)]
                  /\ ret' = query_error(err)
                  /\ txpc' = "done"
                  /\ UNCHANGED <<attempt, backoff_ms>>
             ELSE /\ attempt' = attempt + 1
                  /\ backoff_ms' \in retry_backoff_ms(attempt + 1, rq.config.base_backoff_ms,
                                                      rq.config.max_backoff_ms)
                  /\ rq' = [rq EXCEPT !.lastErr = err, !.failed = TRUE,
                                      !.sleeps = rq.sleeps + 1]
                  /\ txpc' = "sleep"
                  /\ UNCHANGED <<ret, started>>
    /\ UNCHANGED <<env, steps, ids, idx, results, pending>>
    /\ UNCHANGED otherThanTx

\* tokio::time::sleep is over: the loop of run_query issues the query again
Sleep ==
    /\ txpc = "sleep"
    /\ txpc' = "query"
    /\ backoff_ms' = 0
    /\ rq' = [rq EXCEPT !.calls = rq.calls + 1]
    /\ UNCHANGED <<env, steps, ids, idx, results, pending, attempt, started, ret>>
    /\ UNCHANGED otherThanTx

TxNext == AddStep \/ Execute \/ StepExecute \/ ExecuteReturn \/ QueryOk \/ QueryErr \/ Sleep

TxIdle ==
    /\ env = [EXO_DB_RETRY_MAX |-> <<>>, EXO_DB_RETRY_BASE_MS |-> <<>>,
              EXO_DB_RETRY_MAX_MS |-> <<>>]
    /\ steps = <<>>
    /\ ids = <<>>
    /\ txpc = "idle"
    /\ idx = 0
    /\ results = <<>>
    /\ pending = <<>>
    /\ attempt = 0
    /\ backoff_ms = 0
    /\ rq = IdleRq
    /\ started = <<>>
    /\ ret = NoRet

(***************************************************************************)
(* retry_backoff_ms called on its own                                      *)
(***************************************************************************)
BkIdle == bk = [pc |-> "idle"]

BackoffBaseValues ==
    (0..MaxSmallMs) \cup {DEFAULT_RETRY_BASE_MS, U64_MAX \div 2, (U64_MAX \div 2) + 1, U64_MAX}
BackoffMaxValues ==
    (0..MaxSmallMs) \cup {DEFAULT_RETRY_MAX_MS, U64_MAX - 1, U64_MAX}

BkInit ==
    bk \in [pc : {"call"}, attempt : 1..MaxAttemptArg, base_ms : BackoffBaseValues,
            max_ms : BackoffMaxValues, sleep : {0}]

\* one call of retry_backoff_ms(attempt, base_ms, max_ms); the jitter is random
RetryBackoff ==
    /\ bk.pc = "call"
    /\ \E ms \in retry_backoff_ms(bk.attempt, bk.base_ms, bk.max_ms) :
         bk' = [bk EXCEPT !.pc = "ret", !.sleep = ms]
    /\ UNCHANGED otherThanBk

BkNext == RetryBackoff

(***************************************************************************)
(* resolve_operation and response assembly                                 *)
(***************************************************************************)
\* Option values: None is <<>>, Some(x) is <<x>>
None == <<>>
Some(x) == <<x>>

\* PostgresExecutionError values
Authorization == [type |-> "Authorization"]
Postgres(e) == [type |-> "Postgres", source |-> e]
NonUniqueResult(n) == [type |-> "NonUniqueResult", count |-> n]
Generic(msg) == [type |-> "Generic", msg |-> msg]

\* the text column of a result row: a JSON object, JSON null, or text that is no JSON
RowStrings == {"{\"id\":1}", "null", "not json"}
\* the bodies post-processing can write back (serde_json::to_string of the value)
UpdatedStrings == {"{\"id\":1}", "{\"id\":1,\"tax\":8}"}

\* serde_json::from_str(json_str) succeeds
parses_as_json(str) == str # "not json"

\* rows of one text column
ResultRows == UNION { [1..n -> { <<str>> : str \in RowStrings }] : n \in 0..MaxRows }

\* what subsystem_resolver.executor.execute can return: rows, or one of the errors
\* TransactionScript::execute returns
ExecutorResults ==
    { Ok(rows) : rows \in ResultRows }
    \cup { Err(Precheck(n)) : n \in {0, 2} }
    \cup { query_error(e) : e \in {[db |-> TRUE, code |-> UNIQUE_VIOLATION], ClientError} }
    \cup { Err(Transaction("")) }

\* database_helper::extractor: column 0 of the row
extractor(row) == Ok(row[1])

\* mutant: a Precheck error is passed on like any other database error
map_database_error_plain(e) == Postgres(e)

\* lines 53-57: the PostgresExecutionError for a database error of the executor
map_database_error(e) ==
    IF e.type = "Precheck" THEN Authorization ELSE Postgres(e)

\* mutant: the first row is taken whenever there is one
assemble_body_first(rows) ==
    IF Len(rows) >= 1 THEN Ok(Some(extractor(rows[1]).val)) ELSE Ok(None)

\* lines 59-66: the body for the rows of a successful execution
assemble_body(rows) ==
    IF Len(rows) = 1
    THEN LET string_result == extractor(rows[1])
         IN  IF string_result.tag = "Err" THEN string_result
             ELSE Ok(Some(string_result.val))
    ELSE IF rows = <<>> THEN Ok(None)
    ELSE Err(NonUniqueResult(Len(rows)))

\* the lock of transaction_holder is free
try_lock(l) == ~l

QueryResponse(body, headers) == [body |-> body, headers |-> headers]

\* a resolve_operation activation that has acquired the lock and awaits the executor
NewFrame(needs_post) ==
    [pc |-> "executing", needs_postprocess |-> needs_post, result |-> NoRet,
     response |-> None, assembled |-> None, post_ran |-> FALSE, scripts |-> 0,
     ret |-> NoRet]

Top == frames[Len(frames)]
SetTop(f) == [frames EXCEPT ![Len(frames)] = f]

\* the activation returns v: its MutexGuard is dropped
Returned(f, v) == [f EXCEPT !.pc = "done", !.ret = v]

RsInit ==
    /\ request = "running"
    /\ frames = <<>>
    /\ locked = FALSE
    /\ lock_log = <<>>

RsIdle ==
    /\ request = "unused"
    /\ frames = <<>>
    /\ locked = FALSE
    /\ lock_log = <<>>

\* resolve_operation is entered: transaction_holder.try_lock().unwrap()
Enter(needs_post) ==
    /\ lock_log' = Append(lock_log, try_lock(locked))
    /\ IF try_lock(locked)
       THEN /\ locked' = TRUE
            /\ frames' = Append(frames, NewFrame(needs_post))
            /\ UNCHANGED request
       ELSE \* unwrap panics; unwinding drops the guards of the activations
            /\ request' = "panicked"
            /\ frames' = [i \in 1..Len(frames) |->
                            IF frames[i].pc = "done" THEN frames[i]
                            ELSE [frames[i] EXCEPT !.pc = "panicked"]]
            /\ locked' = FALSE

\* the next operation of the request is resolved: resolve_operation is called for it
ResolveOperation ==
    /\ request = "running"
    /\ IF frames = <<>> THEN TRUE ELSE Top.pc = "done"
    /\ Len(frames) < MaxOps
    /\ \E needs_post \in BOOLEAN : Enter(needs_post)
    /\ UNCHANGED otherThanRs

\* executor.execute returns: the error mapping, the response assembly and
\* apply_computed_fields_to_body up to its first script
ExecutorReturns ==
    /\ request = "running"
    /\ frames # <<>>
    /\ Top.pc = "executing"
    /\ \E result \in ExecutorResults :
         LET f == [Top EXCEPT !.result = result]
             body == assemble_body(result.val)
         IN  IF result.tag = "Err"
             THEN /\ frames' = SetTop(Returned(f, Err(map_database_error(result.err))))
                  /\ locked' = FALSE
             ELSE IF body.tag = "Err"
             THEN /\ frames' = SetTop(Returned(f, body))
                  /\ locked' = FALSE
             ELSE LET response == QueryResponse(body.val, <<>>)
                      g == [f EXCEPT !.response = Some(response), !.assembled = Some(body.val),
                                     !.post_ran = TRUE]
                  IN  IF ~f.needs_postprocess \/ body.val = None
                      THEN /\ frames' = SetTop(Returned(g, Ok(response)))
                           /\ locked' = FALSE
                      ELSE IF ~parses_as_json(body.val[1])
                      THEN /\ frames' = SetTop(Returned(g,
                                  Err(Generic("Failed to parse query result JSON"))))
                           /\ locked' = FALSE
                      ELSE /\ frames' = SetTop([g EXCEPT !.pc = "post"])
                           /\ UNCHANGED locked
    /\ UNCHANGED <<request, lock_log>>
    /\ UNCHANGED otherThanRs

\* process_entity reaches an authorized computed field: the script is invoked
ScriptInvoke ==
    /\ request = "running"
    /\ frames # <<>>
    /\ Top.pc = "post"
    /\ Top.scripts < MaxScripts
    /\ frames' = SetTop([Top EXCEPT !.pc = "script", !.scripts = Top.scripts + 1])
    /\ UNCHANGED <<request, locked, lock_log>>
    /\ UNCHANGED otherThanRs

\* the script returns a value: it replaces the field's placeholder
ScriptReturns ==
    /\ request = "running"
    /\ frames # <<>>
    /\ Top.pc = "script"
    /\ frames' = SetTop([Top EXCEPT !.pc = "post"])
    /\ UNCHANGED <<request, locked, lock_log>>
    /\ UNCHANGED otherThanRs

\* the script fails: "Failed to evaluate computed field"
ScriptFails ==
    /\ request = "running"
    /\ frames # <<>>
    /\ Top.pc = "script"
    /\ frames' = SetTop(Returned(Top, Err(Generic("Failed to evaluate computed field"))))
    /\ locked' = FALSE
    /\ UNCHANGED <<request, lock_log>>
    /\ UNCHANGED otherThanRs

\* the script calls the injected Exograph client (exograph_execute_query): an
\* operation of the same request context is resolved inside the running one
ScriptCallsExograph ==
    /\ request = "running"
    /\ frames # <<>>
    /\ Top.pc = "script"
    /\ \E needs_post \in BOOLEAN : Enter(needs_post)
    /\ UNCHANGED otherThanRs

\* process_value is through: the value is serialized into the body
PostDone ==
    /\ request = "running"
    /\ frames # <<>>
    /\ Top.pc = "post"
    /\ \E updated \in UpdatedStrings :
         LET response == [Top.response[1] EXCEPT !.body = Some(updated)]
         IN  frames' = SetTop(Returned([Top EXCEPT !.response = Some(response)],
                                       Ok(response)))
    /\ locked' = FALSE
    /\ UNCHANGED <<request, lock_log>>
    /\ UNCHANGED otherThanRs

\* process_value fails (a value of the wrong shape, an access-solver error)
PostFails ==
    /\ request = "running"
    /\ frames # <<>>
    /\ Top.pc = "post"
    /\ frames' = SetTop(Returned(Top, Err(Generic("Expected object when processing computed fields"))))
    /\ locked' = FALSE
    /\ UNCHANGED <<request, lock_log>>
    /\ UNCHANGED otherThanRs

RsNext ==
    \/ ResolveOperation
    \/ ExecutorReturns
    \/ ScriptInvoke
    \/ ScriptReturns
    \/ ScriptFails
    \/ ScriptCallsExograph
    \/ PostDone
    \/ PostFails

(***************************************************************************)
(* The selection planner: compute_select, content_select, map_field        *)
(***************************************************************************)
\* the entity type the selection is planned for: one field of each relation kind
EntityFields ==
    << [name |-> "id", relation |-> [kind |-> "Scalar", column_id |-> 1]],
       [name |-> "venue",
        relation |-> [kind |-> "ManyToOne", relation_id |-> 1, foreign_entity_id |-> 2]],
       [name |-> "artists",
        relation |-> [kind |-> "OneToMany", relation_id |-> 2, foreign_entity_id |-> 3,
                      cardinality |-> "Unbounded"]],
       [name |-> "profile",
        relation |-> [kind |-> "OneToMany", relation_id |-> 3, foreign_entity_id |-> 4,
                      cardinality |-> "Optional"]],
       [name |-> "tax",
        relation |-> [kind |-> "Computed",
                      dependencies |-> << [field_name |-> "price", column_id |-> 2] >>]],
       [name |-> "note", relation |-> [kind |-> "Computed", dependencies |-> <<>>]],
       [name |-> "meta", relation |-> [kind |-> "Embedded"]],
       [name |-> "labels",
        relation |-> [kind |-> "Transitive",
                      steps |-> << [relation_id |-> [kind |-> "OneToMany", id |-> 2],
                                    cardinality |-> "Unbounded", entity_id |-> 3,
                                    field_name |-> "artists"],
                                   [relation_id |-> [kind |-> "ManyToOne", id |-> 4],
                                    cardinality |-> "Optional", entity_id |-> 5,
                                    field_name |-> "label"] >>]] >>

AggregateFields ==
    << [name |-> "artistsAgg",
        relation |-> [kind |-> "OneToMany", relation_id |-> 2, foreign_entity_id |-> 3,
                      cardinality |-> "Unbounded"]] >>

VectorDistanceFields ==
    << [name |-> "similarity", column_id |-> 3, distance_function |-> "Cosine"] >>

EntityType ==
    [name |-> "Concert", table_id |-> 1, fields |-> EntityFields,
     aggregate_fields |-> AggregateFields,
     vector_distance_fields |-> VectorDistanceFields]

\* Option of the first element of fs named name
find_by_name(fs, name) ==
    LET hits == { i \in 1..Len(fs) : fs[i].name = name }
    IN  IF hits = {} THEN None ELSE Some(fs[CHOOSE i \in hits : \A j \in hits : i <= j])

field_by_name(typ, name) == find_by_name(typ.fields, name)
aggregate_field_by_name(typ, name) == find_by_name(typ.aggregate_fields, name)
vector_distance_field_by_name(typ, name) == find_by_name(typ.vector_distance_fields, name)

\* the names a query can select: those of the entity type, __typename, an unknown one
SelectableNames ==
    { EntityFields[i].name : i \in 1..Len(EntityFields) }
    \cup { AggregateFields[i].name : i \in 1..Len(AggregateFields) }
    \cup { VectorDistanceFields[i].name : i \in 1..Len(VectorDistanceFields) }
    \cup { "__typename", "unknown" }

\* aliases: none, or one that is also the name of a field of the entity type
Aliases == { None, Some("id") }

\* ValidatedField values; only a vector distance field is given the `to` argument
ValidatedFields ==
    { [alias |-> a, name |-> n, arguments |-> args, subfields |-> <<>>] :
        a \in Aliases, n \in SelectableNames, args \in {{}} }
    \cup { [alias |-> a, name |-> "similarity", arguments |-> {"to"}, subfields |-> <<>>] :
             a \in Aliases }

\* ValidatedField::output_name: the alias when there is one, else the name
output_name(field) == IF field.alias = None THEN field.name ELSE field.alias[1]

\* SelectionElement values
Null == [type |-> "Null"]
Constant(v) == [type |-> "Constant", value |-> v]
Physical(column_id) == [type |-> "Physical", column_id |-> column_id]
SubSelect(relation_id, abstract_select) ==
    [type |-> "SubSelect", relation_id |-> relation_id, select |-> abstract_select]
Object(elems) == [type |-> "Object", elems |-> elems]
JsonArrayExtract(source, key) == [type |-> "JsonArrayExtract", source |-> source, key |-> key]
JsonExtract(source, path) == [type |-> "JsonExtract", source |-> source, path |-> path]
VectorDistance(column_id, distance_function) ==
    [type |-> "Function", column_id |-> column_id, distance_function |-> distance_function]

AliasedSelectionElement(alias, elem) == [alias |-> alias, column |-> elem]
ManyToOne(id) == [kind |-> "ManyToOne", id |-> id]
OneToMany(id) == [kind |-> "OneToMany", id |-> id]

TRANSITIVE_VALUE_ALIAS == "__transitive_value"

\* the outcome of mapping one field: the Result, and the number of nested
\* resolve_select calls made for it
Mapped(res, calls) == [res |-> res, calls |-> calls]

\* resolve_select of the pk / collection / aggregate query of an entity for a field:
\* the nested select, or the error of its own access check when ok is FALSE
resolve_select(query, entity_id, field, ok) ==
    IF ok
    THEN Ok([select |-> [table_id |-> entity_id, field |-> field.name,
                         selection |-> [json |-> <<>>,
                                        cardinality |-> IF query = "collection"
                                                        THEN "Many" ELSE "One"]]])
    ELSE Err(Authorization)

\* mutant: every one-to-many step selects many
selection_cardinality_for_step_by_relation(step) ==
    IF step.relation_id.kind = "ManyToOne" THEN "One" ELSE "Many"

selection_cardinality_for_step(step) ==
    IF step.relation_id.kind = "ManyToOne" THEN "One"
    ELSE IF step.cardinality = "Unbounded" THEN "Many" ELSE "One"

resolve_select_for_transitive_step(step, step_field, ok) ==
    IF step.relation_id.kind = "ManyToOne"
    THEN resolve_select("pk", step.entity_id, step_field, ok)
    ELSE IF step.cardinality = "Unbounded"
    THEN resolve_select("collection", step.entity_id, step_field, ok)
    ELSE resolve_select("pk", step.entity_id, step_field, ok)

\* the chain of fields of the steps: the leaf carries the alias, the arguments and
\* the subfields of the selected field, each parent has its child as only subfield
RECURSIVE build_transitive_step_fields_from(_, _, _)
build_transitive_step_fields_from(tsteps, i, acc) ==
    IF i = 0 THEN acc
    ELSE LET parent == [alias |-> None, name |-> tsteps[i].field_name, arguments |-> {},
                        subfields |-> << acc[1] >>]
         IN  build_transitive_step_fields_from(tsteps, i - 1, <<parent>> \o acc)

build_transitive_step_fields(transitive, leaf_field) ==
    IF transitive.steps = <<>> THEN <<>>
    ELSE LET last_step == transitive.steps[Len(transitive.steps)]
             current == [alias |-> leaf_field.alias, name |-> last_step.field_name,
                         arguments |-> leaf_field.arguments,
                         subfields |-> leaf_field.subfields]
         IN  build_transitive_step_fields_from(transitive.steps,
                                               Len(transitive.steps) - 1, <<current>>)

\* the loop of map_transitive_field, from the last step to the first; fail_at is the
\* number of the resolve_select call that fails (0: none does)
RECURSIVE transitive_loop(_, _, _, _, _)
transitive_loop(tsteps, step_fields, i, current_selection, fail_at) ==
    IF i = 0
    THEN Mapped(IF current_selection = None
                THEN Err(Generic("Validation error: Failed to resolve transitive relation"))
                ELSE Ok(current_selection[1]),
                Len(tsteps))
    ELSE LET step == tsteps[i]
             call == Len(tsteps) - i + 1
             resolved == resolve_select_for_transitive_step(step, step_fields[i],
                                                            fail_at # call)
         IN  IF resolved.tag = "Err" THEN Mapped(resolved, call)
             ELSE IF current_selection # None
             THEN LET nested == [resolved.val.select EXCEPT !.selection =
                                   [json |-> << AliasedSelectionElement(TRANSITIVE_VALUE_ALIAS,
                                                                        current_selection[1]) >>,
                                    cardinality |-> selection_cardinality_for_step(step)]]
                      sub_select == SubSelect(step.relation_id, nested)
                      flattened ==
                          IF step.relation_id.kind = "OneToMany"
                             /\ step.cardinality = "Unbounded"
                          THEN JsonArrayExtract(sub_select, TRANSITIVE_VALUE_ALIAS)
                          ELSE JsonExtract(sub_select, <<TRANSITIVE_VALUE_ALIAS>>)
                  IN  transitive_loop(tsteps, step_fields, i - 1, Some(flattened), fail_at)
             ELSE transitive_loop(tsteps, step_fields, i - 1,
                                  Some(SubSelect(step.relation_id, resolved.val.select)),
                                  fail_at)

map_transitive_field(transitive, field, fail_at) ==
    IF transitive.steps = <<>>
    THEN Mapped(Err(Generic("Validation error: Transitive relation must contain at least one step")), 0)
    ELSE transitive_loop(transitive.steps, build_transitive_step_fields(transitive, field),
                         Len(transitive.steps), None, fail_at)

\* Result of a nested select turned into the SubSelect of a relation
sub_select_of(relation_id, nested) ==
    Mapped(IF nested.tag = "Err" THEN nested
           ELSE Ok(SubSelect(relation_id, nested.val.select)), 1)

Panic == [tag |-> "Panic"]

map_persistent_field(entity_field, field, fail_at) ==
    LET rel == entity_field.relation
    IN  CASE rel.kind = "Scalar" -> Mapped(Ok(Physical(rel.column_id)), 0)
          [] rel.kind = "ManyToOne" ->
                sub_select_of(ManyToOne(rel.relation_id),
                              resolve_select("pk", rel.foreign_entity_id, field, fail_at # 1))
          [] rel.kind = "OneToMany" ->
                sub_select_of(OneToMany(rel.relation_id),
                              IF rel.cardinality = "Unbounded"
                              THEN resolve_select("collection", rel.foreign_entity_id, field,
                                                  fail_at # 1)
                              ELSE resolve_select("pk", rel.foreign_entity_id, field,
                                                  fail_at # 1))
          [] rel.kind = "Computed" ->
                IF rel.dependencies = <<>> THEN Mapped(Ok(Null), 0)
                ELSE Mapped(Ok(Object([i \in 1..Len(rel.dependencies) |->
                                 << rel.dependencies[i].field_name,
                                    Physical(rel.dependencies[i].column_id) >>])), 0)
          [] rel.kind = "Embedded" -> Mapped(Panic, 0)
          [] rel.kind = "Transitive" -> map_transitive_field(rel, field, fail_at)

map_aggregate_field(agg_field, field, fail_at) ==
    LET rel == agg_field.relation
    IN  IF rel.kind = "OneToMany"
        THEN IF rel.cardinality = "Unbounded"
             THEN sub_select_of(OneToMany(rel.relation_id),
                                resolve_select("aggregate", rel.foreign_entity_id, field,
                                               fail_at # 1))
             ELSE Mapped(Err(Generic("Validation error: Aggregate is supported only for unbounded relations")), 0)
        ELSE Mapped(Err(Generic("Validation error: Aggregate is supported only for one-to-many")), 0)

\* to_pg_vector fails when fail_at is 1
map_vector_distance_field(vector_distance_field, field, fail_at) ==
    IF "to" \notin field.arguments
    THEN Mapped(Err(Generic("Missing 'to' argument for vector distance field")), 0)
    ELSE IF fail_at = 1 THEN Mapped(Err(Generic("Invalid vector")), 0)
    ELSE Mapped(Ok(VectorDistance(vector_distance_field.column_id,
                                  vector_distance_field.distance_function)), 0)

\* the element map_field selects for a field that is not in unauthorized_fields
map_authorized_field(return_type, field, fail_at) ==
    IF field.name = "__typename" THEN Mapped(Ok(Constant(return_type.name)), 0)
    ELSE LET entity_field == field_by_name(return_type, field.name)
             agg_field == aggregate_field_by_name(return_type, field.name)
             vector_distance_field == vector_distance_field_by_name(return_type, field.name)
         IN  IF entity_field # None
             THEN map_persistent_field(entity_field[1], field, fail_at)
             ELSE IF agg_field # None
             THEN map_aggregate_field(agg_field[1], field, fail_at)
             ELSE IF vector_distance_field = None
             THEN Mapped(Err(Generic("Unknown field")), 0)
             ELSE map_vector_distance_field(vector_distance_field[1], field, fail_at)

\* mutant: the unauthorized set is looked up by the field's name
map_field_by_name(return_type, field, unauthorized, fail_at) ==
    LET selection_elem == IF field.name \in unauthorized THEN Mapped(Ok(Null), 0)
                          ELSE map_authorized_field(return_type, field, fail_at)
    IN  IF selection_elem.res.tag = "Ok"
        THEN Mapped(Ok(AliasedSelectionElement(output_name(field), selection_elem.res.val)),
                    selection_elem.calls)
        ELSE selection_elem

map_field(return_type, field, unauthorized, fail_at) ==
    LET selection_elem == IF output_name(field) \in unauthorized THEN Mapped(Ok(Null), 0)
                          ELSE map_authorized_field(return_type, field, fail_at)
    IN  IF selection_elem.res.tag = "Ok"
        THEN Mapped(Ok(AliasedSelectionElement(output_name(field), selection_elem.res.val)),
                    selection_elem.calls)
        ELSE selection_elem

\* the strings check_access can report for a selection: the names and the output
\* names of its fields
ReportableFields(sel) ==
    { sel[i].name : i \in 1..Len(sel) } \cup { output_name(sel[i]) : i \in 1..Len(sel) }

\* into_iter().collect() of content_select: the first error, else all the elements
collect(ms) ==
    LET errs == { i \in 1..Len(ms) : ms[i].res.tag = "Err" }
    IN  IF errs = {} THEN Ok([i \in 1..Len(ms) |-> ms[i].res.val])
        ELSE ms[CHOOSE i \in errs : \A j \in errs : i <= j].res

PlInit ==
    /\ plpc = "check_access"
    /\ selection \in UNION { [1..n -> ValidatedFields] : n \in 0..MaxFields }
    /\ operation_return_type \in {"List", "Optional"}
    /\ unauthorized_set = {}
    /\ mapped = <<>>
    /\ select = NoRet

PlIdle ==
    /\ plpc = "unused"
    /\ selection = <<>>
    /\ operation_return_type = "Optional"
    /\ unauthorized_set = {}
    /\ mapped = <<>>
    /\ select = NoRet

\* compute_select: check_access returns its outcome
CheckAccess ==
    /\ plpc = "check_access"
    /\ \E unauthorized_fields \in SUBSET ReportableFields(selection) :
         unauthorized_set' = unauthorized_fields
    /\ plpc' = "content_select"
    /\ UNCHANGED <<selection, operation_return_type, mapped, select>>
    /\ UNCHANGED otherThanPl

\* compute_select: check_access fails, the error is returned
CheckAccessFails ==
    /\ plpc = "check_access"
    /\ select' = Err(Authorization)
    /\ plpc' = "done"
    /\ UNCHANGED <<selection, operation_return_type, unauthorized_set, mapped>>
    /\ UNCHANGED otherThanPl

\* content_select: map_field for the next field of the selection
MapField ==
    /\ plpc = "content_select"
    /\ Len(mapped) < Len(selection)
    /\ \E fail_at \in 0..MaxResolveCalls :
         LET m == map_field(EntityType, selection[Len(mapped) + 1], unauthorized_set, fail_at)
         IN  /\ mapped' = Append(mapped, m)
             /\ plpc' = IF m.res = Panic THEN "panicked" ELSE plpc
    /\ UNCHANGED <<selection, operation_return_type, unauthorized_set, select>>
    /\ UNCHANGED otherThanPl

\* content_select collects the elements and compute_select builds the AbstractSelect
ComputeSelectReturns ==
    /\ plpc = "content_select"
    /\ Len(mapped) = Len(selection)
    /\ LET content_object == collect(mapped)
       IN  select' = IF content_object.tag = "Err" THEN content_object
                     ELSE Ok([table_id |-> EntityType.table_id,
                              selection |-> [json |-> content_object.val,
                                             cardinality |-> IF operation_return_type = "List"
                                                             THEN "Many" ELSE "One"]])
    /\ plpc' = "done"
    /\ UNCHANGED <<selection, operation_return_type, unauthorized_set, mapped>>
    /\ UNCHANGED otherThanPl

PlNext ==
    \/ CheckAccess
    \/ CheckAccessFails
    \/ MapField
    \/ ComputeSelectReturns

(***************************************************************************)
(* Order-by mapping: OrderByParameterInput::to_sql and order_by_pair       *)
(***************************************************************************)
\* AbstractPredicate values: True, False, a residual row predicate, a conjunction
PredTrue == [kind |-> "True"]
PredFalse == [kind |-> "False"]
Residual(id) == [kind |-> "Residual", id |-> id]
PredAnd(lhs, rhs) == [kind |-> "And", lhs |-> lhs, rhs |-> rhs]

\* AbstractPredicate::and: False absorbs, True is the unit
AbstractPredicate_and(lhs, rhs) ==
    IF lhs = PredFalse \/ rhs = PredFalse THEN PredFalse
    ELSE IF lhs = PredTrue THEN rhs
    ELSE IF rhs = PredTrue THEN lhs
    ELSE PredAnd(lhs, rhs)

\* ColumnPathLink values and the PhysicalColumnPath operations
Leaf(column_id) == [link |-> "Leaf", column_id |-> column_id]
Relation(relation_id) == [link |-> "Relation", relation_id |-> relation_id]
last_link(path) == path[Len(path)]
\* mutant: the last link is kept
without_last_kept(path) == Some(path)

without_last(path) == IF Len(path) = 1 THEN None ELSE Some(SubSeq(path, 1, Len(path) - 1))
push(path, link) == Append(path, link)

\* mutant: a parent that ends in a leaf is given up altogether
to_column_path_restarting(parent_column_path, next_column_path_link) ==
    IF parent_column_path # None
    THEN IF next_column_path_link # None
         THEN LET parent == parent_column_path[1]
                  next == next_column_path_link[1]
              IN  IF last_link(parent).link = "Leaf" THEN Some(<<next>>)
                  ELSE Some(push(parent, next))
         ELSE parent_column_path
    ELSE IF next_column_path_link # None THEN Some(<<next_column_path_link[1]>>)
    ELSE None

to_column_path(parent_column_path, next_column_path_link) ==
    IF parent_column_path # None
    THEN IF next_column_path_link # None
         THEN LET parent == parent_column_path[1]
                  next == next_column_path_link[1]
                  base_path == IF last_link(parent).link = "Leaf"
                               THEN without_last(parent) ELSE Some(parent)
              IN  IF base_path # None THEN Some(push(base_path[1], next))
                  ELSE Some(<<next>>)
         ELSE parent_column_path
    ELSE IF next_column_path_link # None THEN Some(<<next_column_path_link[1]>>)
    ELSE None

\* Val values of an order-by argument
ValEnum(s) == [kind |-> "Enum", s |-> s]
ValString(s) == [kind |-> "String", s |-> s]
ValNumber == [kind |-> "Number"]
ValVector == [kind |-> "List", elems |-> <<>>]
ValObject(elems) == [kind |-> "Object", elems |-> elems]
ValList(elems) == [kind |-> "List", elems |-> elems]

\* IndexMap::get: the value of the first entry with the key
val_get(elems, key) ==
    LET hits == { i \in 1..Len(elems) : elems[i][1] = key }
    IN  IF hits = {} THEN None ELSE Some(elems[CHOOSE i \in hits : \A j \in hits : i <= j][2])

Validation(name, msg) == [type |-> "Validation", name |-> name, msg |-> msg]

\* the order-by types of the subsystem: a composite root with a primitive column, a
\* relation, a vector column and a non-relation composite; access is the id of the
\* parameter's read access expression, None when it has none
order_by_types ==
    [ConcertOrdering |->
        [kind |-> "Composite",
         parameters |->
           << [name |-> "title", typ |-> "Ordering", column_path_link |-> Some(Leaf(1)),
               access |-> Some(1)],
              [name |-> "venue", typ |-> "VenueOrdering",
               column_path_link |-> Some(Relation(1)), access |-> Some(2)],
              [name |-> "embedding", typ |-> "VectorOrdering",
               column_path_link |-> Some(Leaf(3)), access |-> Some(3)],
              [name |-> "meta", typ |-> "MetaOrdering", column_path_link |-> None,
               access |-> Some(4)] >>],
     VenueOrdering |->
        [kind |-> "Composite",
         parameters |->
           << [name |-> "name", typ |-> "Ordering", column_path_link |-> Some(Leaf(5)),
               access |-> Some(5)] >>],
     MetaOrdering |->
        [kind |-> "Composite",
         parameters |->
           << [name |-> "name", typ |-> "Ordering", column_path_link |-> Some(Leaf(4)),
               access |-> None] >>],
     Ordering |-> [kind |-> "Primitive", parameters |-> <<>>],
     VectorOrdering |-> [kind |-> "Vector", parameters |-> <<>>]]

\* the access ids of the root type's parameters, and those of the nested types
RootAccessIds == {1, 2, 3, 4}

\* check_retrieve_access can return True, False, a residual predicate, or fail
AccessOutcomes(id) ==
    { Ok(PredTrue), Ok(PredFalse), Ok(Residual(id)), Err(Generic("access solver")) }

\* fn ordering: ASC and DESC as enum or string
ordering(argument) ==
    IF argument.kind \in {"Enum", "String"}
    THEN IF argument.s = "ASC" THEN Ok("Asc")
         ELSE IF argument.s = "DESC" THEN Ok("Desc")
         ELSE Err(Generic("Cannot match as valid ordering"))
    ELSE Err(Generic("Unable to process ordering argument"))

\* to_pg_vector: a list of numbers, anything else is rejected
to_pg_vector(value, name) ==
    IF value.kind = "List" THEN Ok("vector") ELSE Err(Validation(name, "Invalid vector"))

Column(path) == [expr |-> "Column", path |-> path]
VectorDistanceExpr(path, target) == [expr |-> "VectorDistance", path |-> path, target |-> target]

OrderByComputation(order_by, predicate) == [order_by |-> order_by, predicate |-> predicate]

\* OrderByComputation::combine: the expressions concatenated and the predicates ANDed,
\* from the left
RECURSIVE combine_from(_, _, _)
combine_from(rs, expressions, predicate) ==
    IF rs = <<>> THEN OrderByComputation(expressions, predicate)
    ELSE combine_from(Tail(rs), expressions \o Head(rs).order_by,
                      AbstractPredicate_and(predicate, Head(rs).predicate))

\* mutant: the results are combined from the last to the first
combine_reversed(rs) ==
    combine_from([i \in 1..Len(rs) |-> rs[Len(rs) + 1 - i]], <<>>, PredTrue)

combine(rs) == combine_from(rs, <<>>, PredTrue)

\* into_iter().collect() into a Result: the first error, else the values
collect_results(rs) ==
    LET errs == { i \in 1..Len(rs) : rs[i].tag # "Ok" }
    IN  IF errs = {} THEN Ok([i \in 1..Len(rs) |-> rs[i].val])
        ELSE rs[CHOOSE i \in errs : \A j \in errs : i <= j]

flatten(order_bys) ==
    IF order_bys.tag = "Ok" THEN Ok(combine(order_bys.val)) ELSE order_bys

\* one order_by_pair call and what it found: the parameter, its access, its result
Visit(name, access, is_relation, res) ==
    [name |-> name, access |-> access, is_relation |-> is_relation, res |-> res]

\* the outcome of a mapping: its Result and the order_by_pair calls made, in call order
Traced(res, trace) == [res |-> res, trace |-> trace]

RECURSIVE concat_traces(_)
concat_traces(ts) == IF ts = <<>> THEN <<>> ELSE Head(ts).trace \o concat_traces(Tail(ts))

RECURSIVE to_sql(_, _, _, _)
RECURSIVE order_by_pair(_, _, _, _, _)

\* mutant: a relation keeps its residual access predicate like any other field
field_access_predicate_lenient(field_access, is_relation) ==
    IF field_access = PredFalse THEN None ELSE Some(field_access)

\* lines 139-169: None when field access forbids the ordering, else the predicate
field_access_predicate(field_access, is_relation) ==
    IF field_access = PredFalse THEN None
    ELSE IF is_relation
    THEN IF field_access = PredTrue THEN Some(PredTrue) ELSE None
    ELSE Some(field_access)

\* lines 178-239: the ordering of a parameter the request may order by
order_by_leaf_or_nested(parameter, parameter_name, parameter_value, parent_column_path, predicate, access) ==
    LET base_param_type == order_by_types[parameter.typ]
        new_column_path == to_column_path(parent_column_path, parameter.column_path_link)
    IN  CASE base_param_type.kind = "Primitive" ->
                IF new_column_path = None THEN Traced(Panic, <<>>)
                ELSE LET o == ordering(parameter_value)
                     IN  Traced(IF o.tag = "Err" THEN o
                                ELSE Ok(OrderByComputation(
                                          << <<Column(new_column_path[1]), o.val>> >>,
                                          predicate)), <<>>)
          [] base_param_type.kind = "Vector" ->
                IF parameter_value.kind # "Object"
                THEN Traced(Err(Validation(parameter_name, "Invalid vector order by parameter")),
                            <<>>)
                ELSE IF new_column_path = None
                        \/ val_get(parameter_value.elems, "distanceTo") = None
                THEN Traced(Panic, <<>>)
                ELSE LET value == val_get(parameter_value.elems, "distanceTo")[1]
                         order_opt == val_get(parameter_value.elems, "order")
                         order == IF order_opt = None THEN ValString("ASC") ELSE order_opt[1]
                         vector_value == to_pg_vector(value, parameter_name)
                         o == ordering(order)
                     IN  Traced(IF vector_value.tag = "Err" THEN vector_value
                                ELSE IF o.tag = "Err" THEN o
                                ELSE Ok(OrderByComputation(
                                          << <<VectorDistanceExpr(new_column_path[1],
                                                                  vector_value.val), o.val>> >>,
                                          predicate)), <<>>)
          [] base_param_type.kind = "Composite" ->
                LET nested == to_sql(parameter.typ, parameter_value, new_column_path, access)
                IN  Traced(IF nested.res.tag # "Ok" THEN nested.res
                           ELSE Ok(OrderByComputation(
                                     nested.res.val.order_by,
                                     AbstractPredicate_and(predicate,
                                                           nested.res.val.predicate))),
                           nested.trace)

order_by_pair(typ, parameter_name, parameter_value, parent_column_path, access) ==
    IF order_by_types[typ].kind # "Composite"
    THEN Traced(Err(Validation(parameter_name,
                               "Invalid primitive or vector order by parameter")), <<>>)
    ELSE LET found == find_by_name(order_by_types[typ].parameters, parameter_name)
         IN  IF found = None
             THEN Traced(Err(Validation(parameter_name, "Invalid order by parameter")), <<>>)
             ELSE LET parameter == found[1]
                      checked == IF parameter.access # None THEN access[parameter.access[1]]
                                 ELSE Ok(PredTrue)
                      is_relation == /\ parameter.column_path_link # None
                                     /\ parameter.column_path_link[1].link = "Relation"
                  IN  IF checked.tag = "Err"
                      THEN Traced(checked, << Visit(parameter_name, checked, is_relation, checked) >>)
                      ELSE LET predicate == field_access_predicate(checked.val, is_relation)
                           IN  IF predicate = None
                               THEN Traced(Err(Authorization),
                                           << Visit(parameter_name, checked, is_relation,
                                                    Err(Authorization)) >>)
                               ELSE LET r == order_by_leaf_or_nested(
                                                 parameter, parameter_name, parameter_value,
                                                 parent_column_path, predicate[1], access)
                                    IN  Traced(r.res,
                                               << Visit(parameter_name, checked, is_relation,
                                                        r.res) >> \o r.trace)

\* OrderByParameterInput::to_sql for a parameter of type typ
to_sql(typ, argument, parent_column_path, access) ==
    IF argument.kind = "Object"
    THEN LET results_ == [i \in 1..Len(argument.elems) |->
                          order_by_pair(typ, argument.elems[i][1], argument.elems[i][2],
                                        parent_column_path, access)]
         IN  IF \E i \in 1..Len(results_) : results_[i].res = Panic
             THEN Traced(Panic, concat_traces(results_))
             ELSE Traced(flatten(collect_results([i \in 1..Len(results_) |-> results_[i].res])),
                         concat_traces(results_))
    ELSE IF argument.kind = "List"
    THEN LET results_ == [i \in 1..Len(argument.elems) |->
                          to_sql(typ, argument.elems[i], parent_column_path, access)]
         IN  IF \E i \in 1..Len(results_) : results_[i].res = Panic
             THEN Traced(Panic, concat_traces(results_))
             ELSE Traced(flatten(collect_results([i \in 1..Len(results_) |-> results_[i].res])),
                         concat_traces(results_))
    ELSE Traced(Err(Validation(typ, "Invalid argument")), <<>>)

\* the parameter names a request can order by (one is not a parameter of the type)
OrderByNames == {"title", "venue", "embedding", "meta", "nope"}

LeafVals == { ValEnum("ASC"), ValString("DESC"), ValString("bogus"), ValNumber }
NestedVals ==
    { ValObject(<<>>),
      ValObject(<< <<"name", ValEnum("ASC")>> >>),
      ValObject(<< <<"name", ValString("bogus")>> >>),
      ValObject(<< <<"nope", ValEnum("ASC")>> >>) }
VectorVals ==
    { ValObject(<< <<"distanceTo", ValVector>>, <<"order", ValEnum("DESC")>> >>),
      ValObject(<< <<"distanceTo", ValVector>> >>),
      ValObject(<< <<"distanceTo", ValString("x")>> >>) }
OrderByValues == LeafVals \cup NestedVals \cup VectorVals

\* the elements of a list argument
ListElementValues ==
    { ValObject(<<>>),
      ValObject(<< <<"title", ValEnum("ASC")>> >>),
      ValObject(<< <<"venue", ValObject(<< <<"name", ValEnum("DESC")>> >>)>> >>),
      ValObject(<< <<"title", ValEnum("ASC")>>,
                   <<"meta", ValObject(<< <<"name", ValEnum("DESC")>> >>)>> >>),
      ValString("ASC") }

\* what the access solver answers for the request: one answer for the expressions of
\* the root type's parameters, one for those of the nested types
AccessKinds == {"True", "False", "Residual", "Err"}
solve(kind, id) ==
    CASE kind = "True" -> Ok(PredTrue)
      [] kind = "False" -> Ok(PredFalse)
      [] kind = "Residual" -> Ok(Residual(id))
      [] kind = "Err" -> Err(Generic("access solver"))
check_retrieve_access(root_kind, nested_kind) ==
    [id \in 1..5 |-> IF id \in RootAccessIds THEN solve(root_kind, id)
                     ELSE solve(nested_kind, id)]

ObInit ==
    /\ obpc = "start"
    /\ ob_mapped = <<>>
    /\ ob_ret = NoRet

ObIdle ==
    /\ obpc = "unused"
    /\ ob_mapped = <<>>
    /\ ob_ret = NoRet

\* to_sql: the argument is a Val::Object
ToSqlObject ==
    /\ obpc = "start"
    /\ obpc' = "object"
    /\ UNCHANGED <<ob_mapped, ob_ret>>
    /\ UNCHANGED otherThanOb

\* to_sql: the argument is a Val::List
ToSqlList ==
    /\ obpc = "start"
    /\ obpc' = "list"
    /\ UNCHANGED <<ob_mapped, ob_ret>>
    /\ UNCHANGED otherThanOb

\* to_sql: the argument is neither
ToSqlInvalid ==
    /\ obpc = "start"
    /\ obpc' = "done"
    /\ ob_ret' = Err(Validation("orderBy", "Invalid argument"))
    /\ UNCHANGED ob_mapped
    /\ UNCHANGED otherThanOb

\* order_by_pair for the next entry of the object
OrderByPair ==
    /\ obpc = "object"
    /\ Len(ob_mapped) < MaxOrderByElems
    /\ \E name \in OrderByNames, value \in OrderByValues,
          root_kind \in AccessKinds, nested_kind \in AccessKinds :
         ob_mapped' = Append(ob_mapped,
                             order_by_pair("ConcertOrdering", name, value, None,
                                           check_retrieve_access(root_kind, nested_kind)))
    /\ UNCHANGED <<obpc, ob_ret>>
    /\ UNCHANGED otherThanOb

\* to_sql for the next element of the list
ListElement ==
    /\ obpc = "list"
    /\ Len(ob_mapped) < MaxOrderByElems
    /\ \E value \in ListElementValues, root_kind \in AccessKinds, nested_kind \in AccessKinds :
         ob_mapped' = Append(ob_mapped,
                             to_sql("ConcertOrdering", value, None,
                                    check_retrieve_access(root_kind, nested_kind)))
    /\ UNCHANGED <<obpc, ob_ret>>
    /\ UNCHANGED otherThanOb

\* join_all is through: the results are collected and flattened
ToSqlReturns ==
    /\ obpc \in {"object", "list"}
    /\ IF \E i \in 1..Len(ob_mapped) : ob_mapped[i].res = Panic
       THEN /\ obpc' = "panicked"
            /\ UNCHANGED ob_ret
       ELSE /\ obpc' = "done"
            /\ ob_ret' = flatten(collect_results([i \in 1..Len(ob_mapped) |-> ob_mapped[i].res]))
    /\ UNCHANGED ob_mapped
    /\ UNCHANGED otherThanOb

ObNext ==
    \/ ToSqlObject
    \/ ToSqlList
    \/ ToSqlInvalid
    \/ OrderByPair
    \/ ListElement
    \/ ToSqlReturns

(***************************************************************************)
(* Computed-field post-processing: process_value and process_entity        *)
(***************************************************************************)
\* serde_json::Value
JNull == [t |-> "null"]
JNum(n) == [t |-> "num", n |-> n]
JStr(s) == [t |-> "str", s |-> s]
JObj(map) == [t |-> "obj", map |-> map]

\* a JSON map with one entry, and with two
Map1(k, v) == [x \in {k} |-> v]
Map2(k1, v1, k2, v2) == [x \in {k1, k2} |-> IF x = k1 THEN v1 ELSE v2]

\* Map::insert, and entry(k).or_insert(v)
map_insert(map, k, v) == [x \in DOMAIN map \cup {k} |-> IF x = k THEN v ELSE map[x]]
or_insert(map, k, v) == IF k \in DOMAIN map THEN map ELSE map_insert(map, k, v)

\* the entity type of the rows: a scalar, a computed field with a dependency on it, a
\* computed field with no dependency
ProductFields ==
    << [name |-> "price", relation |-> [kind |-> "Scalar", column_id |-> 1]],
       [name |-> "tax",
        relation |-> [kind |-> "Computed",
                      dependencies |-> << [field_name |-> "price", column_id |-> 1] >>]],
       [name |-> "note", relation |-> [kind |-> "Computed", dependencies |-> <<>>]] >>

\* a selected field without arguments and subfields
Selected(alias, name) == [alias |-> alias, name |-> name, arguments |-> {}, subfields |-> <<>>]

\* the selections post-processed: fields by name, tax also under an alias, __typename
ComputedSelections ==
    { <<>>,
      << Selected(None, "price") >>,
      << Selected(None, "tax") >>,
      << Selected(None, "note") >>,
      << Selected(None, "price"), Selected(None, "tax") >>,
      << Selected(None, "tax"), Selected(None, "price") >>,
      << Selected(Some("t"), "tax"), Selected(None, "note") >>,
      << Selected(None, "__typename"), Selected(Some("t"), "tax") >>,
      << Selected(None, "tax"), Selected(Some("t"), "tax") >>,
      << Selected(None, "price"), Selected(None, "tax"), Selected(None, "note") >> }

\* what the SQL step can have produced under a key of the row for a selected field
SqlValues(sel_field) ==
    CASE sel_field.name = "price" -> { JNum(100) }
      [] sel_field.name = "tax" ->
            { JObj(Map1("price", JNum(100))), JObj(Map1("price", JNum(7))) }
      [] sel_field.name = "note" -> { JNull }
      [] OTHER -> { JStr("Product") }

\* the rows the SQL step can have produced for a selection, and the other JSON values
\* process_entity can be handed
SqlRows(sel) ==
    { JObj([k \in { output_name(sel[i]) : i \in 1..Len(sel) } |->
              f[CHOOSE i \in 1..Len(sel) : output_name(sel[i]) = k]]) :
        f \in { g \in [1..Len(sel) -> UNION { SqlValues(sel[i]) : i \in 1..Len(sel) }] :
                  \A i \in 1..Len(sel) : g[i] \in SqlValues(sel[i]) } }
SqlItems(sel) == SqlRows(sel) \cup { JNull, JNum(1) }

\* what a script can return
ScriptValues == { JNum(8), JObj(Map1("amount", JNum(8))) }

\* mutant: a dependency value replaces the row's own value of the key
promote_overwriting(parent_map, dependency_values) ==
    [k \in DOMAIN parent_map \cup DOMAIN dependency_values |->
        IF k \in DOMAIN dependency_values THEN dependency_values[k] ELSE parent_map[k]]

\* lines 230-234: each dependency value is inserted under its name unless the parent
\* has the key already
promote(parent_map, dependency_values) ==
    [k \in DOMAIN parent_map \cup DOMAIN dependency_values |->
        IF k \in DOMAIN parent_map THEN parent_map[k] ELSE dependency_values[k]]

\* lines 224-235: the parent snapshot for the field selected as output_name
parent_snapshot(obj, out_name) ==
    IF out_name \in DOMAIN obj /\ obj[out_name].t = "obj"
    THEN JObj(promote(obj, obj[out_name].map))
    ELSE JObj(obj)

\* mutant: an unauthorized field is processed like an authorized one
is_field_authorized_always(predicate) == TRUE

\* is_field_authorized: the solved read predicate is not False
is_field_authorized(predicate) == predicate # PredFalse

\* lines 284-286: a JSON-like entity keeps the projected keys only
retain(map, projected_keys) == [k \in DOMAIN map \cap projected_keys |-> map[k]]

CfIdle ==
    /\ cf_pc = "unused"
    /\ cf_selection = <<>>
    /\ cf_json_like = FALSE
    /\ cf_sql = <<>>
    /\ cf_items = <<>>
    /\ cf_item = 0
    /\ cf_pos = 0
    /\ cf_log = <<>>
    /\ cf_ret = NoRet

\* process_value is called with the parsed body: one entity, or a list of entities
CfInit ==
    /\ cf_pc = "entity"
    /\ cf_selection \in ComputedSelections
    /\ cf_json_like \in BOOLEAN
    /\ cf_sql \in UNION { [1..n -> SqlItems(cf_selection)] : n \in 0..MaxEntities }
    /\ cf_items = cf_sql
    /\ cf_item = 1
    /\ cf_pos = 0
    /\ cf_log = <<>>
    /\ cf_ret = NoRet

\* one selected field of one entity as process_entity handled it: the entity's object
\* at that moment, the solved access, whether the script executor was invoked, with
\* which parent, and what it returned
Handled(item, pos, obj, access, invoked, parent, returned) ==
    [item |-> item, pos |-> pos, obj |-> obj, access |-> access, invoked |-> invoked,
     parent |-> parent, returned |-> returned]

\* process_value: the next entity, or the end of the list
ProcessEntity ==
    /\ cf_pc = "entity"
    /\ IF cf_item > Len(cf_items)
       THEN /\ cf_pc' = "done"
            /\ cf_ret' = Ok("unit")
            /\ UNCHANGED <<cf_item, cf_pos>>
       ELSE IF cf_items[cf_item] = JNull
       THEN /\ cf_item' = cf_item + 1
            /\ UNCHANGED <<cf_pc, cf_ret, cf_pos>>
       ELSE IF cf_items[cf_item].t # "obj"
       THEN /\ cf_pc' = "done"
            /\ cf_ret' = Err(Generic("Expected object when processing computed fields"))
            /\ UNCHANGED <<cf_item, cf_pos>>
       ELSE /\ cf_pc' = "field"
            /\ cf_pos' = 1
            /\ UNCHANGED <<cf_item, cf_ret>>
    /\ UNCHANGED <<cf_selection, cf_json_like, cf_sql, cf_items, cf_log>>
    /\ UNCHANGED otherThanCf

\* process_entity: the next field of the selection, up to the script's invocation
ProcessField ==
    /\ cf_pc = "field"
    /\ cf_pos <= Len(cf_selection)
    /\ LET selection_field == cf_selection[cf_pos]
           entity_field == find_by_name(ProductFields, selection_field.name)
           obj == cf_items[cf_item].map
       IN  IF selection_field.name = "__typename" \/ entity_field = None
           THEN /\ cf_pos' = cf_pos + 1
                /\ UNCHANGED <<cf_pc, cf_log, cf_ret>>
           ELSE \E solved \in AccessOutcomes(cf_pos) :
                  IF solved.tag = "Err"
                  THEN /\ cf_pc' = "done"
                       /\ cf_ret' = solved
                       /\ UNCHANGED <<cf_pos, cf_log>>
                  ELSE IF ~is_field_authorized(solved.val)
                          \/ entity_field[1].relation.kind # "Computed"
                  THEN /\ cf_pos' = cf_pos + 1
                       /\ cf_log' = Append(cf_log, Handled(cf_item, cf_pos, obj, solved,
                                                           FALSE, None, None))
                       /\ UNCHANGED <<cf_pc, cf_ret>>
                  ELSE /\ cf_pc' = "script"
                       /\ cf_log' = Append(cf_log,
                                      Handled(cf_item, cf_pos, obj, solved, TRUE,
                                              Some(parent_snapshot(obj,
                                                     output_name(selection_field))),
                                              None))
                       /\ UNCHANGED <<cf_pos, cf_ret>>
    /\ UNCHANGED <<cf_selection, cf_json_like, cf_sql, cf_items, cf_item>>
    /\ UNCHANGED otherThanCf

\* execute_computed_field returns a value: it is written under the field's output name
ComputedValueReturns ==
    /\ cf_pc = "script"
    /\ \E computed_value \in ScriptValues :
         /\ cf_items' = [cf_items EXCEPT ![cf_item] =
                           JObj(map_insert(cf_items[cf_item].map,
                                           output_name(cf_selection[cf_pos]), computed_value))]
         /\ cf_log' = [cf_log EXCEPT ![Len(cf_log)].returned = Some(computed_value)]
    /\ cf_pc' = "field"
    /\ cf_pos' = cf_pos + 1
    /\ UNCHANGED <<cf_selection, cf_json_like, cf_sql, cf_item, cf_ret>>
    /\ UNCHANGED otherThanCf

\* execute_computed_field fails: the error ends the post-processing
ComputedValueFails ==
    /\ cf_pc = "script"
    /\ cf_pc' = "done"
    /\ cf_ret' = Err(Generic("Failed to evaluate computed field"))
    /\ UNCHANGED <<cf_selection, cf_json_like, cf_sql, cf_items, cf_item, cf_pos, cf_log>>
    /\ UNCHANGED otherThanCf

\* process_entity is through the selection: the keys of a JSON-like entity are pruned
EntityDone ==
    /\ cf_pc = "field"
    /\ cf_pos > Len(cf_selection)
    /\ cf_items' = IF cf_json_like
                   THEN [cf_items EXCEPT ![cf_item] =
                           JObj(retain(cf_items[cf_item].map,
                                       { IF cf_selection[i].name = "__typename"
                                         THEN "__typename" ELSE output_name(cf_selection[i]) :
                                         i \in 1..Len(cf_selection) }))]
                   ELSE cf_items
    /\ cf_item' = cf_item + 1
    /\ cf_pc' = "entity"
    /\ UNCHANGED <<cf_selection, cf_json_like, cf_sql, cf_pos, cf_log, cf_ret>>
    /\ UNCHANGED otherThanCf

CfNext ==
    \/ ProcessEntity
    \/ ProcessField
    \/ ComputedValueReturns
    \/ ComputedValueFails
    \/ EntityDone

(***************************************************************************)
(* GET /healthz (server-actix/src/lib.rs)                                  *)
(***************************************************************************)
JBool(b) == [t |-> "bool", b |-> b]
JArr(list) == [t |-> "arr", list |-> list]
EmptyMap == [x \in {} |-> JNull]

\* strings the handler scans are sequences of characters
DEFAULT_QUERY == "{ __typename }"
PING_QUERY == "{ ping { ok } }"

\* the ${NAME} placeholders are looked up in the same environment; the model keeps the
\* variables a placeholder can name apart from the three EXO_HEALTHZ_ settings
placeholder_get(e, name) == IF name \in DOMAIN e.placeholders THEN e.placeholders[name] ELSE None

\* index of the first "}" at or after i, Len(raw) + 1 when there is none (the for loop
\* of lines 204-209 then consumes the rest of the string)
RECURSIVE closing_brace(_, _)
closing_brace(raw, i) ==
    IF i > Len(raw) \/ raw[i] = "}" THEN i ELSE closing_brace(raw, i + 1)

\* expand_env_placeholders, lines 196-228
RECURSIVE expand_from(_, _, _, _)
expand_from(raw, e, i, output) ==
    IF i > Len(raw) THEN Ok(output)
    ELSE IF raw[i] = "$" /\ i + 1 <= Len(raw) /\ raw[i + 1] = "{"
    THEN LET close == closing_brace(raw, i + 2)
             name == SubSeq(raw, i + 2, close - 1)
             value == placeholder_get(e, name)
         IN  IF name = <<>>
             THEN Err("Invalid EXO_HEALTHZ_VARIABLES placeholder: empty name")
             ELSE IF value = None
             THEN Err("Missing env var referenced by EXO_HEALTHZ_VARIABLES")
             ELSE expand_from(raw, e, close + 1, output \o value[1])
    ELSE expand_from(raw, e, i + 1, Append(output, raw[i]))

expand_env_placeholders(raw, e) == expand_from(raw, e, 1, <<>>)

\* serde_json::from_str on the expanded strings the model's environments produce
from_str(expanded) ==
    IF expanded = <<"{", "}">> THEN Ok(JObj(EmptyMap))
    ELSE IF expanded = <<"{", "\"", "i", "d", "\"", ":", "7", "}">>
    THEN Ok(JObj(Map1("id", JNum(7))))
    ELSE Err("invalid JSON")

\* Value::pointer (RFC 6901). A pointer is a sequence of lexemes: "/" and the reference
\* tokens between the slashes; two adjacent slashes enclose the empty token.
parse_index(token) ==
    IF token = "0" THEN Some(1) ELSE IF token = "1" THEN Some(2) ELSE None

RECURSIVE pointer_walk(_, _)
pointer_walk(target, rest) ==
    LET token == IF rest = <<>> \/ rest[1] = "/" THEN "" ELSE rest[1]
        after == IF rest = <<>> \/ rest[1] = "/" THEN rest ELSE Tail(rest)
        found == IF target.t = "obj"
                 THEN IF token \in DOMAIN target.map THEN Some(target.map[token]) ELSE None
                 ELSE IF target.t = "arr"
                 THEN LET x == parse_index(token)
                      IN  IF x # None /\ x[1] <= Len(target.list)
                          THEN Some(target.list[x[1]]) ELSE None
                 ELSE None
    IN  IF found = None THEN None
        ELSE IF after = <<>> THEN found
        ELSE pointer_walk(found[1], Tail(after))

pointer(value, p) ==
    IF p = <<>> THEN Some(value)
    ELSE IF p[1] # "/" THEN None
    ELSE pointer_walk(value, Tail(p))

\* Value::get("errors"): a key of an object, nothing of any other value
json_get(value, key) ==
    IF value.t = "obj" /\ key \in DOMAIN value.map THEN Some(value.map[key]) ELSE None

\* StatusCode::is_success
is_success(status_code) == status_code >= 200 /\ status_code < 300

\* lines 277-292: a pointer that accepts any value it finds
pointer_verdict_any_value(response_json, response_pointer) ==
    IF response_pointer # None
    THEN IF pointer(response_json, response_pointer[1]) # None
         THEN Ok("unit")
         ELSE Err("Health check JSON pointer not found in response")
    ELSE Ok("unit")

\* lines 277-292 of execute_graphql_health_check
pointer_verdict(response_json, response_pointer) ==
    IF response_pointer # None
    THEN LET target == pointer(response_json, response_pointer[1])
         IN  IF target = Some(JBool(TRUE)) THEN Ok("unit")
             ELSE IF target # None
             THEN Err("Health check JSON pointer did not evaluate to true")
             ELSE Err("Health check JSON pointer not found in response")
    ELSE Ok("unit")

\* execute_graphql_health_check with the pointer checked before the errors field
health_check_pointer_first(response, response_pointer) ==
    IF response = None THEN Err("GraphQL endpoint returned no response")
    ELSE IF ~is_success(response[1].status_code)
    THEN Err("Unexpected status from GraphQL endpoint")
    ELSE IF response[1].body.tag = "Err" THEN Err("Invalid GraphQL response body")
    ELSE IF pointer_verdict(response[1].body.val, response_pointer).tag = "Err"
    THEN pointer_verdict(response[1].body.val, response_pointer)
    ELSE IF json_get(response[1].body.val, "errors") # None
    THEN Err("GraphQL response contains errors")
    ELSE Ok("unit")

\* execute_graphql_health_check from the router's answer on, lines 265-299
health_check_result(response, response_pointer) ==
    IF response = None THEN Err("GraphQL endpoint returned no response")
    ELSE IF ~is_success(response[1].status_code)
    THEN Err("Unexpected status from GraphQL endpoint")
    ELSE IF response[1].body.tag = "Err" THEN Err("Invalid GraphQL response body")
    ELSE IF json_get(response[1].body.val, "errors") # None
    THEN Err("GraphQL response contains errors")
    ELSE pointer_verdict(response[1].body.val, response_pointer)

\* lines 185-193: the HTTP response of /healthz
healthz_response(result) ==
    IF result.tag = "Ok"
    THEN [status |-> 200, body |-> JObj(Map1("status", JStr("ok")))]
    ELSE [status |-> 503,
          body |-> JObj(Map2("status", JStr("error"), "message", JStr(result.err)))]

\* lines 135-174: the query, the variables and the pointer the check is made with
healthz_settings(e) ==
    LET fallback == [query |-> DEFAULT_QUERY, variables |-> None, response_pointer |-> None]
        raw == e.EXO_HEALTHZ_VARIABLES
        configured_query == IF e.EXO_HEALTHZ_QUERY # None THEN e.EXO_HEALTHZ_QUERY[1]
                            ELSE DEFAULT_QUERY
    IN  IF raw # None
        THEN LET expanded == expand_env_placeholders(raw[1], e)
             IN  IF expanded.tag = "Ok" /\ from_str(expanded.val).tag = "Ok"
                 THEN [query |-> configured_query,
                       variables |-> Some(from_str(expanded.val).val),
                       response_pointer |-> e.EXO_HEALTHZ_RESPONSE_JSON_POINTER]
                 ELSE fallback
        ELSE IF e.EXO_HEALTHZ_QUERY # None THEN fallback
        ELSE [query |-> configured_query, variables |-> None,
              response_pointer |-> e.EXO_HEALTHZ_RESPONSE_JSON_POINTER]

\* lines 253-261: the body of the GraphQL request
request_body(query, variables) ==
    IF variables # None
    THEN JObj(Map2("query", JStr(query), "variables", variables[1]))
    ELSE JObj(Map1("query", JStr(query)))

\* the values of the environment
HealthzQueries == { None, Some(PING_QUERY) }
HealthzVariables ==
    { None,
      Some(<<"{", "}">>),
      Some(<<"{", "\"", "i", "d", "\"", ":", "$", "{", "I", "D", "}", "}">>),
      Some(<<"$", "{", "}">>),
      Some(<<"{">>) }
HealthzPointers ==
    { None,
      Some(<<"/", "data", "/", "ping", "/", "ok">>),
      Some(<<"/", "data", "/", "ping">>),
      Some(<<"data", "/", "ping", "/", "ok">>),
      Some(<<"/", "flags", "/", "0">>) }
Placeholders == { [n \in {<<"I", "D">>} |-> None], [n \in {<<"I", "D">>} |-> Some(<<"7">>)] }
HealthzEnvironments ==
    [EXO_HEALTHZ_QUERY : HealthzQueries,
     EXO_HEALTHZ_VARIABLES : HealthzVariables,
     EXO_HEALTHZ_RESPONSE_JSON_POINTER : HealthzPointers,
     placeholders : Placeholders]

\* what system_router.route answers: nothing, or a status and a body that parses or not
Ping(v) == Map1("data", JObj(Map1("ping", JObj(Map1("ok", v)))))
GraphQLError == JArr(<<JObj(Map1("message", JStr("failed")))>>)
ResponseBodies ==
    { Err("not JSON"),
      Ok(JObj(Ping(JBool(TRUE)))),
      Ok(JObj(Ping(JBool(FALSE)))),
      Ok(JObj(Ping(JStr("true")))),
      Ok(JObj(Ping(JNull))),
      Ok(JObj(Map1("data", JObj(Map1("ping", JObj(EmptyMap)))))),
      Ok(JObj(Map1("data", JObj(Map1("__typename", JStr("Query")))))),
      Ok(JObj(Map1("flags", JArr(<<JBool(TRUE)>>)))),
      Ok(JObj(map_insert(Ping(JBool(TRUE)), "errors", GraphQLError))),
      Ok(JObj(Map2("data", JNull, "errors", GraphQLError))),
      Ok(JArr(<<>>)) }
StatusCodes == { 200, 204, 400, 500 }
RouterResponses ==
    { None } \cup { Some([status_code |-> c, body |-> b]) : c \in StatusCodes, b \in ResponseBodies }

HzIdle ==
    /\ hz_pc = "unused"
    /\ hz_env = <<>>
    /\ hz_requests = 0
    /\ hz_settings = <<>>
    /\ hz_payload = None
    /\ hz_response = None
    /\ hz_http = None

\* the server is up with its environment; no GET /healthz has arrived yet
HzInit ==
    /\ hz_pc = "idle"
    /\ hz_env \in HealthzEnvironments
    /\ hz_requests = 0
    /\ hz_settings = <<>>
    /\ hz_payload = None
    /\ hz_response = None
    /\ hz_http = None

\* handle_healthz up to the await of system_router.route (lines 130-263)
HandleHealthz ==
    /\ hz_pc \in {"idle", "done"}
    /\ hz_requests < MaxHealthzRequests
    /\ hz_requests' = hz_requests + 1
    /\ hz_settings' = healthz_settings(hz_env)
    /\ hz_payload' = Some(request_body(hz_settings'.query, hz_settings'.variables))
    /\ hz_response' = None
    /\ hz_http' = None
    /\ hz_pc' = "routing"
    /\ UNCHANGED hz_env
    /\ UNCHANGED otherThanHz

\* system_router.route returns and the handler answers (lines 265-299, 185-193)
RouteReturns ==
    /\ hz_pc = "routing"
    /\ \E response \in RouterResponses :
          /\ hz_response' = response
          /\ hz_http' = Some(healthz_response(
                                health_check_result(response, hz_settings.response_pointer)))
    /\ hz_pc' = "done"
    /\ UNCHANGED <<hz_env, hz_requests, hz_settings, hz_payload>>
    /\ UNCHANGED otherThanHz

HzNext ==
    \/ HandleHealthz
    \/ RouteReturns

(***************************************************************************)
(* DatabasePool (exo-sql/src/sql/connect/database_pool.rs) over the        *)
(* deadpool managed pool it configures                                     *)
(***************************************************************************)
DEFAULT_MAX_LIFETIME_SECS == 900

Clients == 1..MaxClients

\* PoolConfig as from_connect_with_config receives it
PoolConfigs ==
    [max_size : { Some(n) : n \in 0..MaxPoolSize },
     max_lifetime_secs : { None, Some(1) }]

\* lines 226-235: unwrap_or(900)
max_lifetime(config) ==
    IF config.max_lifetime_secs # None THEN config.max_lifetime_secs[1]
    ELSE DEFAULT_MAX_LIFETIME_SECS

\* a pre_recycle hook that also rejects a connection exactly max_lifetime old
pre_recycle_at_limit(age, limit) ==
    IF age >= limit THEN Err("Connection exceeded max_lifetime") ELSE Ok("unit")

\* lines 241-253: the pre_recycle hook
pre_recycle(age, limit) ==
    IF age > limit THEN Err("Connection exceeded max_lifetime") ELSE Ok("unit")

\* deadpool's Pool::status: the users are the callers of get() that wait or hold
pool_status(max_size, size, users) ==
    [max_size |-> max_size,
     size |-> size,
     available |-> IF users < size THEN size - users ELSE 0,
     waiting |-> IF users < size THEN 0 ELSE users - size]

\* a status() that reports the idle count as the size and the size as the idle count
status_fields_swapped(pool) ==
    [max_size |-> pool.max_size, size |-> pool.available, available |-> pool.size,
     waiting |-> pool.waiting]

\* lines 139-147: DatabasePool::status
status(pool) ==
    [max_size |-> pool.max_size, size |-> pool.size, available |-> pool.available,
     waiting |-> pool.waiting]

\* the pool's status now
current_status == status(pool_status(po_config.max_size[1], po_size, po_users))

\* a client that is not in a get_client call and holds no connection
Resting == [pc |-> "idle", obj |-> None, hook |-> None, recycled |-> FALSE]

PoIdle ==
    /\ po_config = <<>>
    /\ po_now = 0
    /\ po_ticks = 0
    /\ po_slots = <<>>
    /\ po_size = 0
    /\ po_users = 0
    /\ po_permits = 0
    /\ po_clients = <<>>
    /\ po_logged = None

\* from_connect_with_config built the pool: no connection yet, every permit free
PoInit ==
    /\ po_config \in PoolConfigs
    /\ po_now = 0
    /\ po_ticks = 0
    /\ po_slots = <<>>
    /\ po_size = 0
    /\ po_users = 0
    /\ po_permits = po_config.max_size[1]
    /\ po_clients = [c \in Clients |-> Resting]
    /\ po_logged = None

\* get_client calls pool.get(): the caller counts as a user and waits for a permit
GetClient(c) ==
    /\ po_clients[c].pc = "idle"
    /\ po_clients[c].obj = None
    /\ po_users' = po_users + 1
    /\ po_clients' = [po_clients EXCEPT ![c].pc = "waiting"]
    /\ UNCHANGED <<po_config, po_now, po_ticks, po_slots, po_size, po_permits, po_logged>>
    /\ UNCHANGED otherThanPo

AcquirePermit(c) ==
    /\ po_clients[c].pc = "waiting"
    /\ po_permits > 0
    /\ po_permits' = po_permits - 1
    /\ po_clients' = [po_clients EXCEPT ![c].pc = "permit"]
    /\ UNCHANGED <<po_config, po_now, po_ticks, po_slots, po_size, po_users, po_logged>>
    /\ UNCHANGED otherThanPo

\* lines 122-134: pool.get() failed; get_client logs the pool's status and returns Err
get_client_fails(c, permits, size) ==
    /\ po_users' = po_users - 1
    /\ po_permits' = permits
    /\ po_size' = size
    /\ po_logged' = Some(status(pool_status(po_config.max_size[1], size, po_users - 1)))
    /\ po_clients' = [po_clients EXCEPT ![c] = Resting]

\* wait_timeout elapsed before a permit was free
WaitTimesOut(c) ==
    /\ po_clients[c].pc = "waiting"
    /\ get_client_fails(c, po_permits, po_size)
    /\ UNCHANGED <<po_config, po_now, po_ticks, po_slots>>
    /\ UNCHANGED otherThanPo

\* the oldest idle connection is taken and the pre_recycle hook sees its age: rejected,
\* it is dropped and the caller looks again
RecycleRejected(c) ==
    /\ po_clients[c].pc = "permit"
    /\ po_slots # <<>>
    /\ LET age == po_now - Head(po_slots).created
       IN  /\ pre_recycle(age, max_lifetime(po_config)).tag = "Err"
           /\ po_clients' = [po_clients EXCEPT
                                ![c].hook = Some([age |-> age, passed |-> FALSE])]
    /\ po_slots' = Tail(po_slots)
    /\ po_size' = po_size - 1
    /\ UNCHANGED <<po_config, po_now, po_ticks, po_users, po_permits, po_logged>>
    /\ UNCHANGED otherThanPo

\* the hook passes: the manager verifies the connection next (RecyclingMethod::Verified)
RecyclePasses(c) ==
    /\ po_clients[c].pc = "permit"
    /\ po_slots # <<>>
    /\ LET age == po_now - Head(po_slots).created
       IN  /\ pre_recycle(age, max_lifetime(po_config)).tag = "Ok"
           /\ po_clients' = [po_clients EXCEPT
                                ![c].hook = Some([age |-> age, passed |-> TRUE]),
                                ![c].obj = Some(Head(po_slots)),
                                ![c].pc = "recycling"]
    /\ po_slots' = Tail(po_slots)
    /\ UNCHANGED <<po_config, po_now, po_ticks, po_size, po_users, po_permits, po_logged>>
    /\ UNCHANGED otherThanPo

\* the verification query succeeded: pool.get() returns the recycled connection
RecycleVerified(c) ==
    /\ po_clients[c].pc = "recycling"
    /\ po_clients' = [po_clients EXCEPT ![c].pc = "holding", ![c].recycled = TRUE]
    /\ UNCHANGED <<po_config, po_now, po_ticks, po_slots, po_size, po_users, po_permits,
                   po_logged>>
    /\ UNCHANGED otherThanPo

\* the verification failed or timed out: the connection is dropped, the caller looks again
RecycleFails(c) ==
    /\ po_clients[c].pc = "recycling"
    /\ po_size' = po_size - 1
    /\ po_clients' = [po_clients EXCEPT ![c].pc = "permit", ![c].obj = None]
    /\ UNCHANGED <<po_config, po_now, po_ticks, po_slots, po_users, po_permits, po_logged>>
    /\ UNCHANGED otherThanPo

\* no idle connection is left: the manager connects
CreateStarts(c) ==
    /\ po_clients[c].pc = "permit"
    /\ po_slots = <<>>
    /\ po_clients' = [po_clients EXCEPT ![c].pc = "creating"]
    /\ UNCHANGED <<po_config, po_now, po_ticks, po_slots, po_size, po_users, po_permits,
                   po_logged>>
    /\ UNCHANGED otherThanPo

CreateSucceeds(c) ==
    /\ po_clients[c].pc = "creating"
    /\ po_size' = po_size + 1
    /\ po_clients' = [po_clients EXCEPT ![c].pc = "holding",
                                        ![c].obj = Some([created |-> po_now]),
                                        ![c].recycled = FALSE]
    /\ UNCHANGED <<po_config, po_now, po_ticks, po_slots, po_users, po_permits, po_logged>>
    /\ UNCHANGED otherThanPo

\* the connection attempt failed or create_timeout elapsed
CreateFails(c) ==
    /\ po_clients[c].pc = "creating"
    /\ get_client_fails(c, po_permits + 1, po_size)
    /\ UNCHANGED <<po_config, po_now, po_ticks, po_slots>>
    /\ UNCHANGED otherThanPo

\* the DatabaseClient is dropped: the connection goes back to the idle queue
ReturnClient(c) ==
    /\ po_clients[c].pc = "holding"
    /\ po_users' = po_users - 1
    /\ po_slots' = Append(po_slots, po_clients[c].obj[1])
    /\ po_permits' = po_permits + 1
    /\ po_clients' = [po_clients EXCEPT ![c] = Resting]
    /\ UNCHANGED <<po_config, po_now, po_ticks, po_size, po_logged>>
    /\ UNCHANGED otherThanPo

\* time passes: a second, as long as the default max_lifetime, or a second longer
Tick ==
    /\ po_ticks < MaxTicks
    /\ po_ticks' = po_ticks + 1
    /\ \E d \in {1, DEFAULT_MAX_LIFETIME_SECS, DEFAULT_MAX_LIFETIME_SECS + 1} :
          po_now' = po_now + d
    /\ UNCHANGED <<po_config, po_slots, po_size, po_users, po_permits, po_clients, po_logged>>
    /\ UNCHANGED otherThanPo

PoNext ==
    \/ \E c \in Clients : GetClient(c)
    \/ \E c \in Clients : AcquirePermit(c)
    \/ \E c \in Clients : WaitTimesOut(c)
    \/ \E c \in Clients : RecycleRejected(c)
    \/ \E c \in Clients : RecyclePasses(c)
    \/ \E c \in Clients : RecycleVerified(c)
    \/ \E c \in Clients : RecycleFails(c)
    \/ \E c \in Clients : CreateStarts(c)
    \/ \E c \in Clients : CreateSucceeds(c)
    \/ \E c \in Clients : CreateFails(c)
    \/ \E c \in Clients : ReturnClient(c)
    \/ Tick

(***************************************************************************)
(* OperationValidator (core-resolver/src/validation/operation_validator.rs)*)
(***************************************************************************)
QUERY_ROOT_TYPENAME == "Query"
MUTATION_ROOT_TYPENAME == "Mutation"

\* ValidationError values
OperationNotFound(type_name) == [e |-> "OperationNotFound", type_name |-> type_name]
VariableNotFound(variable_name) == [e |-> "VariableNotFound", name |-> variable_name]
MalformedVariable(variable_name) == [e |-> "MalformedVariable", name |-> variable_name]
SelectionSetTooDeep == [e |-> "SelectionSetTooDeep"]

\* ConstValue values
ConstNull == [c |-> "Null"]
ConstEnum(name) == [c |-> "Enum", name |-> name]
ConstString(s) == [c |-> "String", s |-> s]
ConstNumber(n) == [c |-> "Number", n |-> n]
ConstBoolean(b) == [c |-> "Boolean", b |-> b]
ConstList(list) == [c |-> "List", list |-> list]
ConstObject(map) == [c |-> "Object", map |-> map]

\* async_graphql_parser Type: its base is a list of a type or a named type
ListType(elem_type) == [base |-> "List", elem |-> elem_type]
NamedType(type_name) == [base |-> "Named", name |-> type_name]

\* the type definitions every schema of the model has besides its root types: an enum,
\* an input object with an enum field, a list-of-enum field and a scalar field, a scalar
ColorValues == { "RED", "GREEN" }
ColorInputFields ==
    [f \in {"color", "colors", "note"} |->
        CASE f = "color" -> NamedType("Color")
          [] f = "colors" -> ListType(NamedType("Color"))
          [] f = "note" -> NamedType("String")]

\* schema.get_type_definition
get_type_definition(roots, type_name) ==
    CASE type_name = "Color" -> Some([kind |-> "Enum", values |-> ColorValues])
      [] type_name = "ColorInput" -> Some([kind |-> "InputObject", fields |-> ColorInputFields])
      [] type_name = "String" -> Some([kind |-> "Scalar"])
      [] type_name \in roots -> Some([kind |-> "Object"])
      [] OTHER -> None

\* ConstValue::from_json
RECURSIVE from_json(_)
from_json(value) ==
    CASE value.t = "null" -> ConstNull
      [] value.t = "bool" -> ConstBoolean(value.b)
      [] value.t = "num" -> ConstNumber(value.n)
      [] value.t = "str" -> ConstString(value.s)
      [] value.t = "arr" -> ConstList([i \in 1..Len(value.list) |-> from_json(value.list[i])])
      [] value.t = "obj" -> ConstObject([k \in DOMAIN value.map |-> from_json(value.map[k])])

\* lines 231-255 with a match that ignores the case of the string
coerce_enum_ignoring_case(values, value, variable_name) ==
    LET upper(s) == IF s = "red" THEN "RED" ELSE IF s = "green" THEN "GREEN" ELSE s
    IN  IF value.t = "str"
        THEN IF upper(value.s) \in values THEN Ok(ConstEnum(upper(value.s)))
             ELSE Err(MalformedVariable(variable_name))
        ELSE IF value.t = "null" THEN Ok(ConstNull)
        ELSE Err(MalformedVariable(variable_name))

\* lines 231-255: a value for an enum type
coerce_enum(values, value, variable_name) ==
    IF value.t = "str"
    THEN IF value.s \in values THEN Ok(ConstEnum(value.s))
         ELSE Err(MalformedVariable(variable_name))
    ELSE IF value.t = "null" THEN Ok(ConstNull)
    ELSE Err(MalformedVariable(variable_name))

\* lines 195-311
RECURSIVE coerce_variable_value(_, _, _, _)
coerce_variable_value(roots, expected_type, value, variable_name) ==
    IF expected_type.base = "List"
    THEN IF value.t = "arr"
         THEN LET coerced == [i \in 1..Len(value.list) |->
                                coerce_variable_value(roots, expected_type.elem,
                                                      value.list[i], variable_name)]
              IN  IF \E i \in 1..Len(coerced) : coerced[i].tag = "Err"
                  THEN Err(MalformedVariable(variable_name))
                  ELSE Ok(ConstList([i \in 1..Len(coerced) |-> coerced[i].val]))
         ELSE Ok(from_json(value))
    ELSE LET type_definition == get_type_definition(roots, expected_type.name)
         IN  IF type_definition # None /\ type_definition[1].kind = "Enum"
             THEN coerce_enum(type_definition[1].values, value, variable_name)
             ELSE IF type_definition # None /\ type_definition[1].kind = "InputObject"
             THEN IF value.t = "obj"
                  THEN LET fields == type_definition[1].fields
                           coerced == [field_name \in DOMAIN value.map |->
                                         IF field_name \in DOMAIN fields
                                         THEN coerce_variable_value(roots, fields[field_name],
                                                  value.map[field_name], variable_name)
                                         ELSE Ok(from_json(value.map[field_name]))]
                       IN  IF \E k \in DOMAIN coerced : coerced[k].tag = "Err"
                           THEN Err(MalformedVariable(variable_name))
                           ELSE Ok(ConstObject([k \in DOMAIN coerced |-> coerced[k].val]))
                  ELSE IF value.t = "null" THEN Ok(ConstNull)
                  ELSE Err(MalformedVariable(variable_name))
             ELSE Ok(from_json(value))

\* var_value taking an absent variable for null
var_value_absent_is_null(roots, variable_name, var_type, supplied) ==
    IF supplied = None THEN Ok(ConstNull)
    ELSE coerce_variable_value(roots, var_type, supplied[1], variable_name)

\* lines 172-193: the supplied value of a declared variable, coerced
var_value(roots, variable_name, var_type, supplied) ==
    IF supplied = None THEN Err(VariableNotFound(variable_name))
    ELSE coerce_variable_value(roots, var_type, supplied[1], variable_name)

\* lines 66-84 with the limit itself rejected
selection_depth_check_strict(depth, is_introspection, limits) ==
    IF is_introspection # None
    THEN LET max_depth == IF is_introspection[1] THEN limits.introspection ELSE limits.normal
         IN  IF depth >= max_depth THEN Err(SelectionSetTooDeep) ELSE Ok(TRUE)
    ELSE Ok(TRUE)

\* lines 63-85
selection_depth_check(depth, is_introspection, limits) ==
    IF is_introspection # None
    THEN LET max_depth == IF is_introspection[1] THEN limits.introspection ELSE limits.normal
         IN  IF depth > max_depth THEN Err(SelectionSetTooDeep) ELSE Ok(TRUE)
    ELSE Ok(TRUE)

\* lines 108-112
operation_type_name(ty) ==
    IF ty = "Query" THEN QUERY_ROOT_TYPENAME ELSE MUTATION_ROOT_TYPENAME

\* lines 114-122: the error of an operation whose root type the schema does not define
root_type_error(roots, ty) ==
    IF get_type_definition(roots, operation_type_name(ty)) = None
    THEN Some(OperationNotFound(operation_type_name(ty)))
    ELSE None

\* the inputs of the model
Schemas == { {"Query"}, {"Mutation"} }
OperationTypes == { "Query", "Mutation" }
VariableTypes ==
    { NamedType("Color"), ListType(NamedType("Color")), NamedType("ColorInput"),
      NamedType("String") }
JsonValues ==
    { JNull, JStr("RED"), JStr("red"), JStr("PURPLE"), JNum(1), JBool(TRUE),
      JArr(<<JStr("RED"), JNull, JStr("GREEN")>>),
      JArr(<<JStr("RED"), JStr("PURPLE")>>),
      JArr(<<JNum(1)>>),
      JObj(Map2("color", JStr("GREEN"), "note", JStr("RED"))),
      JObj(Map2("color", JStr("PURPLE"), "note", JStr("RED"))),
      JObj(Map2("colors", JArr(<<JStr("RED"), JBool(TRUE)>>), "extra", JStr("PURPLE"))),
      JObj(Map2("colors", JArr(<<JNull, JStr("RED")>>), "extra", JStr("PURPLE"))),
      JObj(Map1("color", JObj(EmptyMap))) }
DepthLimits == [normal : 0..MaxDepth, introspection : 0..MaxDepth]

VaIdle ==
    /\ va_pc = "unused"
    /\ va_schema = {}
    /\ va_ty = ""
    /\ va_has_variables = FALSE
    /\ va_declared = 0
    /\ va_examined = 0
    /\ va_var = None
    /\ va_limits = <<>>
    /\ va_check = None
    /\ va_checks = 0
    /\ va_ret = NoRet

\* OperationValidator::new, then validate is called with an operation that declares
\* va_declared variables; the variables are named 1, 2, ... in declaration order
VaInit ==
    /\ va_pc = "root"
    /\ va_schema \in Schemas
    /\ va_ty \in OperationTypes
    /\ va_has_variables \in BOOLEAN
    /\ va_declared \in 0..MaxVariables
    /\ va_examined = 0
    /\ va_var = None
    /\ va_limits \in DepthLimits
    /\ va_check = None
    /\ va_checks = 0
    /\ va_ret = NoRet

\* lines 108-122: the root type of the operation is looked up
ValidateRootType ==
    /\ va_pc = "root"
    /\ LET error == root_type_error(va_schema, va_ty)
       IN  IF error # None
           THEN va_pc' = "done" /\ va_ret' = Err(error[1])
           ELSE va_pc' = "variables" /\ va_ret' = va_ret
    /\ UNCHANGED <<va_schema, va_ty, va_has_variables, va_declared, va_examined, va_var,
                   va_limits, va_check, va_checks>>
    /\ UNCHANGED otherThanVa

\* validate_variables, lines 162-169: the next declared variable; its type and the
\* entry of the variables map are what the operation and the request hold for it
VarValue ==
    /\ va_pc = "variables"
    /\ va_examined < va_declared
    /\ \E var_type \in VariableTypes :
       \E supplied \in { None } \cup { Some(v) : v \in JsonValues } :
          /\ (~va_has_variables) => supplied = None
          /\ LET variable_name == va_examined + 1
                 value == var_value(va_schema, variable_name, var_type, supplied)
             IN  /\ va_var' = Some([name |-> variable_name, type |-> var_type,
                                    supplied |-> supplied, value |-> value])
                 /\ va_examined' = variable_name
                 /\ IF value.tag = "Err"
                    THEN va_pc' = "done" /\ va_ret' = value
                    ELSE va_pc' = va_pc /\ va_ret' = va_ret
    /\ UNCHANGED <<va_schema, va_ty, va_has_variables, va_declared, va_limits, va_check,
                   va_checks>>
    /\ UNCHANGED otherThanVa

\* lines 125-137: every variable has a value; the selection set validator takes over
SelectionSetValidate ==
    /\ va_pc = "variables"
    /\ va_examined = va_declared
    /\ va_pc' = "selection"
    /\ UNCHANGED <<va_schema, va_ty, va_has_variables, va_declared, va_examined, va_var,
                   va_limits, va_check, va_checks, va_ret>>
    /\ UNCHANGED otherThanVa

\* the selection set validator invokes the depth check at a level of the selection
DepthCheck ==
    /\ va_pc = "selection"
    /\ va_checks < MaxDepthChecks
    /\ \E depth \in 0..MaxDepth + 1 :
       \E is_introspection \in { None, Some(TRUE), Some(FALSE) } :
          LET checked == selection_depth_check(depth, is_introspection, va_limits)
          IN  /\ va_check' = Some([depth |-> depth, is_introspection |-> is_introspection,
                                   result |-> checked])
              /\ IF checked.tag = "Err"
                 THEN va_pc' = "done" /\ va_ret' = checked
                 ELSE va_pc' = va_pc /\ va_ret' = va_ret
    /\ va_checks' = va_checks + 1
    /\ UNCHANGED <<va_schema, va_ty, va_has_variables, va_declared, va_examined, va_var,
                   va_limits>>
    /\ UNCHANGED otherThanVa

\* lines 139-143: the ValidatedOperation
ValidateReturns ==
    /\ va_pc = "selection"
    /\ va_pc' = "done"
    /\ va_ret' = Ok([typ |-> va_ty])
    /\ UNCHANGED <<va_schema, va_ty, va_has_variables, va_declared, va_examined, va_var,
                   va_limits, va_check, va_checks>>
    /\ UNCHANGED otherThanVa

VaNext ==
    \/ ValidateRootType
    \/ VarValue
    \/ SelectionSetValidate
    \/ DepthCheck
    \/ ValidateReturns

(***************************************************************************)
(* server-common sentry::init: SENTRY_GUARD and the threads that call init *)
(***************************************************************************)
\* str::trim on a string held as a sequence of characters
RECURSIVE trim_start(_)
trim_start(s) ==
    IF s # <<>> /\ Head(s) = " " THEN trim_start(Tail(s)) ELSE s

RECURSIVE trim_end(_)
trim_end(s) ==
    IF s # <<>> /\ s[Len(s)] = " " THEN trim_end(SubSeq(s, 1, Len(s) - 1)) ELSE s

trim(s) == trim_end(trim_start(s))

\* get_env_value: the trimmed value of the key, None when unset or empty
get_env_value(e, key) ==
    IF e[key] = None THEN None
    ELSE IF trim(e[key][1]) = <<>> THEN None
    ELSE Some(trim(e[key][1]))

\* the dsn init reads: EXO_SENTRY_DSN, or else SENTRY_DSN
sentry_dsn(e) ==
    IF get_env_value(e, "EXO_SENTRY_DSN") # None
    THEN get_env_value(e, "EXO_SENTRY_DSN")
    ELSE get_env_value(e, "SENTRY_DSN")

\* the environments init is called with
SentryEnvs ==
    [EXO_SENTRY_DSN : {None, Some(<<" ">>), Some(<<"a">>)},
     SENTRY_DSN : {None, Some(<<"b", " ">>)}]

SentryThreads == 1..MaxThreads

\* SENTRY_GUARD.get().is_some()
guard_is_set(g) == g # None

\* OnceLock::set: the cell keeps its value when it has one; the rejected guard is
\* handed back and dropped by `let _ =`
once_lock_set(g, guard) ==
    IF g = None THEN [cell |-> Some(guard), dropped |-> 0]
    ELSE [cell |-> g, dropped |-> 1]

SeInit ==
    /\ se_env \in SentryEnvs
    /\ se_guard = None
    /\ se_threads = [t \in SentryThreads |-> [pc |-> "idle", calls |-> 0, late |-> FALSE]]
    /\ se_inits = 0
    /\ se_dropped = 0

SeIdle ==
    /\ se_env = <<>>
    /\ se_guard = None
    /\ se_threads = <<>>
    /\ se_inits = 0
    /\ se_dropped = 0

\* a thread calls init(env): line 13 reads SENTRY_GUARD and returns when it is set
SentryInitCall(t) ==
    /\ se_threads[t].pc = "idle"
    /\ se_threads[t].calls < MaxInitCalls
    /\ se_threads' = [se_threads EXCEPT
          ![t] = [pc |-> IF guard_is_set(se_guard) THEN "idle" ELSE "dsn",
                  calls |-> @.calls + 1,
                  late |-> guard_is_set(se_guard)]]
    /\ UNCHANGED <<se_env, se_guard, se_inits, se_dropped>>
    /\ UNCHANGED otherThanSe

\* lines 17-21: the dsn is read from the environment; init returns when there is none
SentryReadDsn(t) ==
    /\ se_threads[t].pc = "dsn"
    /\ se_threads' = [se_threads EXCEPT
          ![t].pc = IF sentry_dsn(se_env) = None THEN "idle" ELSE "init"]
    /\ UNCHANGED <<se_env, se_guard, se_inits, se_dropped>>
    /\ UNCHANGED otherThanSe

\* lines 23-49: the options are built and sentry::init of the SDK is invoked
SentrySdkInit(t) ==
    /\ se_threads[t].pc = "init"
    /\ se_inits' = se_inits + 1
    /\ se_threads' = [se_threads EXCEPT ![t].pc = "set"]
    /\ UNCHANGED <<se_env, se_guard, se_dropped>>
    /\ UNCHANGED otherThanSe

\* line 50: `let _ = SENTRY_GUARD.set(guard)`
SentrySetGuard(t) ==
    /\ se_threads[t].pc = "set"
    /\ LET r == once_lock_set(se_guard, [by |-> t, call |-> se_threads[t].calls,
                                         late |-> se_threads[t].late])
       IN  /\ se_guard' = r.cell
           /\ se_dropped' = se_dropped + r.dropped
    /\ se_threads' = [se_threads EXCEPT ![t].pc = "idle"]
    /\ UNCHANGED <<se_env, se_inits>>
    /\ UNCHANGED otherThanSe

SeNext ==
    \E t \in SentryThreads :
        \/ SentryInitCall(t)
        \/ SentryReadDsn(t)
        \/ SentrySdkInit(t)
        \/ SentrySetGuard(t)

(***************************************************************************)
(* Column-path composition: to_column_path applied while descending        *)
(***************************************************************************)
\* the links a parameter can carry: none, a leaf column, a relation
ColumnPathLinks ==
    {None} \cup { Some(Leaf(c)) : c \in 1..MaxColumnIds }
           \cup { Some(Relation(r)) : r \in 1..MaxRelationIds }

CpInit ==
    /\ cp_path = None
    /\ cp_call = <<>>
    /\ cp_calls = 0

CpIdle ==
    /\ cp_path = <<"unused">>
    /\ cp_call = <<>>
    /\ cp_calls = 0

\* one level of the descent: the path of the level is the parent's path composed with
\* the link of the parameter
ToColumnPath ==
    /\ cp_calls < MaxPathCalls
    /\ \E next_column_path_link \in ColumnPathLinks :
         LET result == to_column_path(cp_path, next_column_path_link)
         IN  /\ cp_call' = [parent |-> cp_path, link |-> next_column_path_link,
                            result |-> result]
             /\ cp_path' = result
    /\ cp_calls' = cp_calls + 1
    /\ UNCHANGED otherThanCp

CpNext == ToColumnPath

(***************************************************************************)
(* map_transitive_field on relation paths of every shape                   *)
(***************************************************************************)
\* relation kind and cardinality of a TransitiveRelationStep
TransitiveStepKinds ==
    { <<"ManyToOne", "Optional">>, <<"ManyToOne", "Unbounded">>,
      <<"OneToMany", "Optional">>, <<"OneToMany", "Unbounded">> }

\* the steps of a relation path: step i follows relation i into entity i + 1
TransitiveSteps(kinds) ==
    [i \in 1..Len(kinds) |->
        [relation_id |-> [kind |-> kinds[i][1], id |-> i], cardinality |-> kinds[i][2],
         entity_id |-> i + 1, field_name |-> "step"]]

TransitiveRelations ==
    { [kind |-> "Transitive", steps |-> TransitiveSteps(kinds)] :
        kinds \in UNION { [1..n -> TransitiveStepKinds] : n \in 0..MaxTransitiveSteps } }

TrInit ==
    /\ tr_pc = "call"
    /\ tr_transitive \in TransitiveRelations
    /\ tr_field \in { [alias |-> a, name |-> "labels", arguments |-> {}, subfields |-> <<>>] :
                        a \in Aliases }
    /\ tr_ret = NoRet

TrIdle ==
    /\ tr_pc = "unused"
    /\ tr_transitive = <<>>
    /\ tr_field = <<>>
    /\ tr_ret = NoRet

\* map_persistent_field reaches a PostgresRelation::Transitive: map_transitive_field;
\* any one of the nested resolve_select calls may fail
MapTransitiveField ==
    /\ tr_pc = "call"
    /\ \E fail_at \in 0..Len(tr_transitive.steps) :
         tr_ret' = map_transitive_field(tr_transitive, tr_field, fail_at)
    /\ tr_pc' = "done"
    /\ UNCHANGED <<tr_transitive, tr_field>>
    /\ UNCHANGED otherThanTr

TrNext == MapTransitiveField

(***************************************************************************)
(* apply_computed_fields_to_body and needs_postprocess                     *)
(***************************************************************************)
\* the entity types of the subsystem: Concert has a field of every relation kind,
\* its relations lead to Venue, which has a computed field
Composite(type_name) == [index |-> "Composite", type_name |-> type_name]
Primitive == [index |-> "Primitive"]

entity_types ==
    [Concert |->
        << [name |-> "id", relation |-> "Scalar", typ |-> Primitive],
           [name |-> "tax", relation |-> "Computed", typ |-> Primitive],
           [name |-> "meta", relation |-> "Embedded", typ |-> Composite("Address")],
           [name |-> "venue", relation |-> "ManyToOne", typ |-> Composite("Venue")],
           [name |-> "artists", relation |-> "OneToMany", typ |-> Composite("Venue")],
           [name |-> "labels", relation |-> "Transitive", typ |-> Composite("Venue")] >>,
     Venue |->
        << [name |-> "name", relation |-> "Scalar", typ |-> Primitive],
           [name |-> "rating", relation |-> "Computed", typ |-> Primitive] >>,
     Address |->
        << [name |-> "street", relation |-> "Scalar", typ |-> Primitive] >>]

\* field_operation_return_type: the entity type of a composite field, through
\* Optional and List; None for a primitive
field_operation_return_type(typ) ==
    IF typ.index = "Composite" THEN Some(typ.type_name) ELSE None

SelectedField(name, subfields) ==
    [alias |-> None, name |-> name, arguments |-> {}, subfields |-> subfields]

\* the fields a query can select on Concert; a field of a composite type is
\* selected with subfields, an embedded field with or without
PostprocessFields ==
    { SelectedField(n, <<>>) : n \in {"id", "tax", "meta", "__typename"} }
    \cup { SelectedField("meta", <<SelectedField("street", <<>>)>>) }
    \cup { SelectedField(n, <<SelectedField(s, <<>>)>>) :
             n \in {"venue", "artists", "labels"}, s \in {"name", "rating"} }

\* the selection sets of the operation: a query on an entity selects at least one field
PostprocessSelections ==
    UNION { [1..n -> PostprocessFields] : n \in 1..MaxSelected }

\* needs_postprocess, lines 408-436: the loop over the selection from field i on
RECURSIVE needs_postprocess(_, _, _)
RECURSIVE needs_postprocess_from(_, _, _, _)
needs_postprocess_from(entity_type, sel, json_like, i) ==
    IF i > Len(sel) THEN FALSE
    ELSE LET entity_field == find_by_name(entity_types[entity_type], sel[i].name)
             relation == entity_field[1].relation
             nested_return_type == field_operation_return_type(entity_field[1].typ)
         IN  IF entity_field = None
             THEN needs_postprocess_from(entity_type, sel, json_like, i + 1)
             ELSE IF relation = "Computed" THEN TRUE
             ELSE IF relation = "Embedded" /\ sel[i].subfields # <<>> THEN TRUE
             ELSE IF /\ relation \in {"ManyToOne", "OneToMany"}
                     /\ nested_return_type # None
                     /\ needs_postprocess(nested_return_type[1], sel[i].subfields, json_like)
             THEN TRUE
             ELSE needs_postprocess_from(entity_type, sel, json_like, i + 1)

\* needs_postprocess; json_like is the set of entity types whose representation
\* is JSON-like
needs_postprocess(entity_type, sel, json_like) ==
    IF entity_type \in json_like /\ sel # <<>> THEN TRUE
    ELSE needs_postprocess_from(entity_type, sel, json_like, 1)

\* the computed fields process_entity can reach in a selection: those of the entity
\* and those under any field of a composite type selected with subfields
RECURSIVE computed_fields_reached(_, _)
computed_fields_reached(entity_type, sel) ==
    IF sel = <<>> THEN 0
    ELSE LET entity_field == find_by_name(entity_types[entity_type], Head(sel).name)
             nested == field_operation_return_type(entity_field[1].typ)
             here == IF entity_field = None THEN 0
                     ELSE IF entity_field[1].relation = "Computed" THEN 1
                     ELSE IF Head(sel).subfields # <<>> /\ nested # None
                     THEN computed_fields_reached(nested[1], Head(sel).subfields)
                     ELSE 0
         IN  here + computed_fields_reached(entity_type, Tail(sel))

NpInit ==
    /\ np_pc = "start"
    /\ np_json_like \in SUBSET {"Concert", "Venue"}
    /\ np_selection \in PostprocessSelections
    /\ np_raw \in {None, Some("{\"id\":1}"), Some("not json")}
    /\ np_body = np_raw
    /\ np_needs = None
    /\ np_scripts = 0
    /\ np_ret = NoRet

NpIdle ==
    /\ np_pc = "unused"
    /\ np_json_like = {}
    /\ np_selection = <<>>
    /\ np_raw = None
    /\ np_body = None
    /\ np_needs = None
    /\ np_scripts = 0
    /\ np_ret = NoRet

\* apply_computed_fields_to_body up to process_value, lines 55-68
ApplyComputedFieldsToBody ==
    /\ np_pc = "start"
    /\ LET needed == needs_postprocess("Concert", np_selection, np_json_like)
       IN  /\ np_needs' = Some(needed)
           /\ IF ~needed \/ np_body = None
              THEN np_pc' = "done" /\ np_ret' = Ok(<<>>)
              ELSE IF ~parses_as_json(np_body[1])
              THEN /\ np_pc' = "done"
                   /\ np_ret' = Err(Generic("Failed to parse query result JSON"))
              ELSE np_pc' = "process" /\ UNCHANGED np_ret
    /\ UNCHANGED <<np_json_like, np_selection, np_raw, np_body, np_scripts>>
    /\ UNCHANGED otherThanNp

\* process_value returns Ok, lines 70-86: it invoked a script for each computed field
\* it reached on an entity that is present and may read it; the value is written back
ProcessValueReturns ==
    /\ np_pc = "process"
    /\ np_scripts' \in 0..computed_fields_reached("Concert", np_selection)
    /\ \E updated \in UpdatedStrings : np_body' = Some(updated)
    /\ np_ret' = Ok(<<>>)
    /\ np_pc' = "done"
    /\ UNCHANGED <<np_json_like, np_selection, np_raw, np_needs>>
    /\ UNCHANGED otherThanNp

\* process_value fails, line 78: the body is not written
ProcessValueFails ==
    /\ np_pc = "process"
    /\ np_scripts' \in 0..computed_fields_reached("Concert", np_selection)
    /\ np_ret' = Err(Generic("Failed to evaluate computed field"))
    /\ np_pc' = "done"
    /\ UNCHANGED <<np_json_like, np_selection, np_raw, np_body, np_needs>>
    /\ UNCHANGED otherThanNp

NpNext ==
    \/ ApplyComputedFieldsToBody
    \/ ProcessValueReturns
    \/ ProcessValueFails

\* the transaction engine: a script is built, then executed
InitTx == TxInit /\ BkIdle /\ RsIdle /\ PlIdle /\ ObIdle /\ CfIdle /\ HzIdle /\ PoIdle /\ VaIdle /\ SeIdle /\ CpIdle /\ TrIdle /\ NpIdle
SpecTx == InitTx /\ [][TxNext]_vars

\* retry_backoff_ms applied to every argument of the bounded sets
InitBackoff == BkInit /\ TxIdle /\ RsIdle /\ PlIdle /\ ObIdle /\ CfIdle /\ HzIdle /\ PoIdle /\ VaIdle /\ SeIdle /\ CpIdle /\ TrIdle /\ NpIdle
SpecBackoff == InitBackoff /\ [][BkNext]_vars

\* one request resolving its operations
InitResolve == RsInit /\ TxIdle /\ BkIdle /\ PlIdle /\ ObIdle /\ CfIdle /\ HzIdle /\ PoIdle /\ VaIdle /\ SeIdle /\ CpIdle /\ TrIdle /\ NpIdle
SpecResolve == InitResolve /\ [][RsNext]_vars

\* one compute_select call planning a selection
InitPlan == PlInit /\ TxIdle /\ BkIdle /\ RsIdle /\ ObIdle /\ CfIdle /\ HzIdle /\ PoIdle /\ VaIdle /\ SeIdle /\ CpIdle /\ TrIdle /\ NpIdle
SpecPlan == InitPlan /\ [][PlNext]_vars

\* one order-by argument mapped by OrderByParameterInput::to_sql
InitOrderBy == ObInit /\ TxIdle /\ BkIdle /\ RsIdle /\ PlIdle /\ CfIdle /\ HzIdle /\ PoIdle /\ VaIdle /\ SeIdle /\ CpIdle /\ TrIdle /\ NpIdle
SpecOrderBy == InitOrderBy /\ [][ObNext]_vars

\* one process_value pass over the entities of a response body
InitComputed == CfInit /\ TxIdle /\ BkIdle /\ RsIdle /\ PlIdle /\ ObIdle /\ HzIdle /\ PoIdle /\ VaIdle /\ SeIdle /\ CpIdle /\ TrIdle /\ NpIdle
SpecComputed == InitComputed /\ [][CfNext]_vars

\* a server answering GET /healthz requests
InitHealthz == HzInit /\ TxIdle /\ BkIdle /\ RsIdle /\ PlIdle /\ ObIdle /\ CfIdle /\ PoIdle /\ VaIdle /\ SeIdle /\ CpIdle /\ TrIdle /\ NpIdle
SpecHealthz == InitHealthz /\ [][HzNext]_vars

\* a pool built by from_connect_with_config and the clients that use it
InitPool == PoInit /\ TxIdle /\ BkIdle /\ RsIdle /\ PlIdle /\ ObIdle /\ CfIdle /\ HzIdle /\ VaIdle /\ SeIdle /\ CpIdle /\ TrIdle /\ NpIdle
SpecPool == InitPool /\ [][PoNext]_vars

\* one OperationValidator validating one operation
InitValidate == VaInit /\ TxIdle /\ BkIdle /\ RsIdle /\ PlIdle /\ ObIdle /\ CfIdle /\ HzIdle /\ PoIdle /\ SeIdle /\ CpIdle /\ TrIdle /\ NpIdle
SpecValidate == InitValidate /\ [][VaNext]_vars
InitSentry == SeInit /\ TxIdle /\ BkIdle /\ RsIdle /\ PlIdle /\ ObIdle /\ CfIdle /\ HzIdle /\ PoIdle /\ VaIdle /\ CpIdle /\ TrIdle /\ NpIdle
SpecSentry == InitSentry /\ [][SeNext]_vars
InitColumnPath == CpInit /\ SeIdle /\ TxIdle /\ BkIdle /\ RsIdle /\ PlIdle /\ ObIdle /\ CfIdle /\ HzIdle /\ PoIdle /\ VaIdle /\ TrIdle /\ NpIdle
SpecColumnPath == InitColumnPath /\ [][CpNext]_vars
InitTransitive == TrInit /\ CpIdle /\ SeIdle /\ TxIdle /\ BkIdle /\ RsIdle /\ PlIdle /\ ObIdle /\ CfIdle /\ HzIdle /\ PoIdle /\ VaIdle /\ NpIdle
SpecTransitive == InitTransitive /\ [][TrNext]_vars
InitPostprocess == NpInit /\ TrIdle /\ CpIdle /\ SeIdle /\ TxIdle /\ BkIdle /\ RsIdle /\ PlIdle /\ ObIdle /\ CfIdle /\ HzIdle /\ PoIdle /\ VaIdle
SpecPostprocess == InitPostprocess /\ [][NpNext]_vars

(***************************************************************************)
(* Properties of the transaction engine (checked under SpecTx)             *)
(***************************************************************************)
\* the results of the steps that completed before the j-th started one
ResultsBefore(j) == [i \in 1..(j - 1) |-> started[i].out.val]

\* C1: steps run strictly in the order add_step received them, one at a time: the id
\* add_step returns is the zero-based position of the step it added, the j-th step to
\* start is the step at position j-1, every step before it has completed, and the
\* context it sees holds exactly the results of steps 0..j-2 in that order.
C1_StepsRunInInsertionOrder ==
    /\ Len(ids) = Len(steps)
    /\ \A k \in 1..Len(ids) : ids[k] = k - 1 /\ steps[ids[k] + 1].tag = k - 1
    /\ Len(started) <= Len(steps)
    /\ \A j \in 1..Len(started) :
         /\ started[j].tag = steps[j].tag
         /\ \A i \in 1..(j - 1) : started[i].out.tag = "Ok"
         /\ started[j].ctx = ResultsBefore(j)

\* C1 witness: the third step starts with the two earlier, different, results
C1_Witness ==
    /\ Len(started) = 3
    /\ Len(started[3].ctx) = 2
    /\ started[3].ctx[1] = started[1].out.val
    /\ started[3].ctx[2] = started[2].out.val
    /\ started[1].out.val # started[2].out.val

\* C2: an operation that is not a Select is sent to the database exactly once,
\* whatever error comes back and whatever EXO_DB_RETRY_MAX is: run_query never
\* sleeps for it and its first error is the result of run_query and of execute.
C2_WritesNeverRetried ==
    rq.op # "Select" =>
        /\ rq.calls = 1
        /\ rq.sleeps = 0
        /\ txpc # "sleep"
        /\ rq.failed => /\ rq.out = query_error(rq.lastErr)
                        /\ txpc = "done"
                        /\ ret = rq.out

\* C2 witness: an Insert fails with 57P03 while EXO_DB_RETRY_MAX=2 and is not retried
C2_Witness ==
    /\ rq.op = "Insert"
    /\ env.EXO_DB_RETRY_MAX = <<2>>
    /\ rq.failed
    /\ rq.lastErr = [db |-> TRUE, code |-> "57P03"]
    /\ rq.calls = 1
    /\ txpc = "done"

\* the bound on what is left of a run_query invocation: it decreases with every
\* attempt and every sleep
C3_Measure ==
    2 * (rq.config.max_retries + 1 - rq.calls) + (IF txpc = "query" THEN 1 ELSE 0)

C3_Bounded ==
    /\ rq.calls <= rq.config.max_retries + 1
    /\ attempt <= rq.config.max_retries
    /\ txpc = "query" => rq.sleeps = rq.calls - 1
    /\ txpc = "sleep" => rq.sleeps = rq.calls /\ rq.calls <= rq.config.max_retries
    /\ rq.out.tag = "Ok" => rq.sleeps = rq.calls - 1 /\ txpc # "query" /\ txpc # "sleep"
    \* retries are exhausted before a retryable error of a Select surfaces
    /\ (rq.out.tag = "Err" /\ rq.op = "Select" /\ rq.lastErr.db
           /\ rq.lastErr.code \in {"57P01", "57P02", "57P03", "08006", "08003"})
          => rq.calls = rq.config.max_retries + 1 /\ rq.sleeps = rq.config.max_retries

\* C3: run_query makes at most max_retries + 1 attempts with one sleep between
\* consecutive attempts, returns at the first successful attempt (no attempt follows
\* it), surfaces a retryable error only when the retries are exhausted, and
\* terminates: every attempt and every sleep decreases a non-negative measure.
C3_RetryBoundedAndTerminates ==
    [][ /\ C3_Bounded /\ C3_Bounded'
        /\ (txpc \in {"query", "sleep"} /\ txpc' \in {"query", "sleep"}
              /\ rq'.stmt = rq.stmt)
             => (C3_Measure' < C3_Measure /\ C3_Measure' >= 0)
        /\ (rq.out # NoRet /\ rq'.stmt = rq.stmt) => rq' = rq ]_vars

\* C3 witness: EXO_DB_RETRY_MAX=2, a Select fails with 57P03, sleeps once and
\* succeeds on the second attempt
C3_Witness ==
    /\ env.EXO_DB_RETRY_MAX = <<2>>
    /\ rq.op = "Select"
    /\ rq.lastErr = [db |-> TRUE, code |-> "57P03"]
    /\ rq.calls = 2
    /\ rq.sleeps = 1
    /\ rq.out.tag = "Ok"
    /\ Len(rq.out.val) = 1

\* the transient SQLSTATEs: admin_shutdown, crash_shutdown, cannot_connect_now,
\* connection_failure, connection_does_not_exist
TransientError(err) ==
    err.db /\ err.code \in {"57P01", "57P02", "57P03", "08006", "08003"}

\* C4: run_query goes on after a failure only for a Select whose error is a database
\* error with a transient SQLSTATE; any other error is returned at once, with no sleep
\* after it, as the DatabaseError wrapped with "Database operation failed": after
\* exactly one attempt when it is the first failure.
C4_OnlyTransientErrorsRetried ==
    /\ (rq.failed /\ rq.out = NoRet) => (rq.op = "Select" /\ TransientError(rq.lastErr))
    /\ (rq.failed /\ ~TransientError(rq.lastErr)) =>
          /\ rq.out = Err([type |-> "WithContext", context |-> "Database operation failed",
                           inner |-> [type |-> "Delegate", source |-> rq.lastErr]])
          /\ ret = rq.out
          /\ txpc = "done"
          /\ rq.calls = rq.sleeps + 1
          /\ rq.sleeps = 0 => rq.calls = 1

\* C4 witness: a Select that could be retried fails first with a client error that
\* carries no SQLSTATE and returns after one attempt
C4_Witness ==
    /\ rq.op = "Select"
    /\ rq.config.max_retries = 2
    /\ rq.failed
    /\ rq.lastErr = ClientError
    /\ rq.calls = 1
    /\ txpc = "done"

\* C6: execute returns the rows of the last step: when it returns Ok every step ran
\* and the value is the result of the step at position n-1; when all n >= 1 steps
\* succeeded it returns Ok; a script with no steps returns the Transaction error.
C6_ReturnsLastStepRows ==
    txpc = "done" =>
        /\ ret.tag = "Ok" =>
              /\ Len(steps) >= 1
              /\ Len(started) = Len(steps)
              /\ started[Len(steps)].tag = steps[Len(steps)].tag
              /\ ret.val = started[Len(steps)].out.val
        /\ (/\ Len(steps) >= 1
            /\ Len(started) = Len(steps)
            /\ \A j \in 1..Len(started) : started[j].out.tag = "Ok") => ret.tag = "Ok"
        /\ Len(steps) = 0 => ret = Err([type |-> "Transaction", msg |-> ""])

\* C6 witness: three steps succeeded with different rows and the third's are returned
C6_Witness ==
    /\ txpc = "done"
    /\ Len(steps) = 3
    /\ ret.tag = "Ok"
    /\ ret.val = started[3].out.val
    /\ ret.val # started[1].out.val
    /\ ret.val # started[2].out.val
    /\ Len(ret.val) = 2

\* C7: a Precheck step succeeds only with exactly one row, which is its result; with
\* zero rows or with two or more it fails with DatabaseError::Precheck, execute
\* returns that error and no later step of the script starts.
C7_PrecheckExactlyOneRow ==
    \A j \in 1..Len(started) :
        steps[j].kind = "Precheck" =>
            /\ started[j].out.tag = "Ok" =>
                  started[j].out.val = <<[stmt |-> <<steps[j].tag, 1>>, row |-> 1]>>
            /\ (j = Len(started) /\ rq.out.tag = "Ok" /\ Len(rq.out.val) # 1) =>
                  /\ started[j].out =
                        Err([type |-> "Precheck", expected |-> 1, got |-> Len(rq.out.val)])
                  /\ txpc = "done"
                  /\ ret = started[j].out
                  /\ Len(results) = j - 1
            /\ (j = Len(started) /\ rq.out.tag = "Ok" /\ Len(rq.out.val) = 1) =>
                  started[j].out = rq.out

\* C7 witness: a Precheck that got two rows stops a script whose next step is a Delete
C7_Witness ==
    /\ Len(steps) >= 2
    /\ steps[1].kind = "Precheck"
    /\ steps[2].op = "Delete"
    /\ Len(started) = 1
    /\ started[1].out = Err([type |-> "Precheck", expected |-> 1, got |-> 2])
    /\ txpc = "done"

(***************************************************************************)
(* Properties of resolve_operation (checked under SpecResolve)             *)
(***************************************************************************)
\* C8: when the executor returns a database error, resolve_operation returns
\* Authorization for a Precheck error and Postgres(error) for every other one; in both
\* cases no response is built and apply_computed_fields_to_body is not called.
C8_PrecheckSurfacesAsAuthorization ==
    \A i \in 1..Len(frames) :
        LET f == frames[i]
        IN  f.result.tag = "Err" =>
              /\ f.pc = "done"
              /\ f.ret = Err(IF f.result.err.type = "Precheck"
                             THEN [type |-> "Authorization"]
                             ELSE [type |-> "Postgres", source |-> f.result.err])
              /\ f.response = None
              /\ ~f.post_ran
              /\ f.scripts = 0

\* C8 witness: a Precheck error of the executor has become Authorization
C8_Witness ==
    /\ frames # <<>>
    /\ frames[1].result = Err([type |-> "Precheck", expected |-> 1, got |-> 0])
    /\ frames[1].ret = Err([type |-> "Authorization"])

\* C9: zero rows give the absent body and that response is returned; one row gives the
\* body equal to the row's string, returned as it is when no post-processing is
\* needed; n > 1 rows give NonUniqueResult(n) and no response; the headers of every
\* response are the empty list, before and after post-processing.
C9_ResponseAssembly ==
    \A i \in 1..Len(frames) :
        LET f == frames[i]
            rows == f.result.val
        IN  /\ f.result.tag = "Ok" =>
                  /\ Len(rows) = 0 =>
                        /\ f.assembled = Some(None)
                        /\ f.ret = Ok([body |-> None, headers |-> <<>>])
                  /\ Len(rows) = 1 =>
                        /\ f.assembled = Some(Some(rows[1][1]))
                        /\ ~f.needs_postprocess =>
                              f.ret = Ok([body |-> Some(rows[1][1]), headers |-> <<>>])
                  /\ Len(rows) > 1 =>
                        /\ f.ret = Err([type |-> "NonUniqueResult", count |-> Len(rows)])
                        /\ f.response = None
                        /\ ~f.post_ran
            /\ f.response # None => f.response[1].headers = <<>>
            /\ f.ret.tag = "Ok" => (f.ret.val.headers = <<>> /\ f.response = Some(f.ret.val))

\* C9 witness: one row, and post-processing with a script rewrote the body
C9_Witness ==
    /\ frames # <<>>
    /\ frames[1].pc = "done"
    /\ frames[1].result.tag = "Ok"
    /\ Len(frames[1].result.val) = 1
    /\ frames[1].scripts >= 1
    /\ frames[1].ret.tag = "Ok"
    /\ frames[1].ret.val.body # frames[1].assembled[1]
    /\ frames[1].ret.val.headers = <<>>

(***************************************************************************)
(* Properties of the selection planner (checked under SpecPlan)            *)
(***************************************************************************)
\* C10: every selected field whose output name is in unauthorized_fields is mapped to
\* its output name with the element Null, whatever its relation kind and alias, with no
\* nested select resolved for it; a plan that is returned holds Null at its position.
C10_UnauthorizedFieldsAreNull ==
    /\ \A i \in 1..Len(mapped) :
          output_name(selection[i]) \in unauthorized_set =>
              mapped[i] = Mapped(Ok(AliasedSelectionElement(output_name(selection[i]), Null)), 0)
    /\ (plpc = "done" /\ select.tag = "Ok") =>
          \A i \in 1..Len(selection) :
              output_name(selection[i]) \in unauthorized_set =>
                  select.val.selection.json[i] =
                      AliasedSelectionElement(output_name(selection[i]), Null)

\* C10 witness: an aliased transitive field and an aggregate field, both
\* unauthorized, are in a returned plan as Null
C10_Witness ==
    /\ plpc = "done"
    /\ select.tag = "Ok"
    /\ Len(selection) = 2
    /\ selection[1].name = "labels" /\ selection[1].alias = Some("id")
    /\ selection[2].name = "artistsAgg" /\ selection[2].alias = None
    /\ unauthorized_set = {"id", "artistsAgg"}
    /\ select.val.selection.json[1].column = Null
    /\ select.val.selection.json[2].column = Null

(***************************************************************************)
(* Properties of the order-by mapping (checked under SpecOrderBy)          *)
(***************************************************************************)
\* the residual predicates a predicate is the conjunction of
RECURSIVE Conjuncts(_)
Conjuncts(p) ==
    IF p.kind = "And" THEN Conjuncts(p.lhs) \cup Conjuncts(p.rhs)
    ELSE IF p.kind = "Residual" THEN {p} ELSE {}

\* every order_by_pair call made while mapping the argument
AllVisits == UNION { { ob_mapped[i].trace[j] : j \in 1..Len(ob_mapped[i].trace) } :
                       i \in 1..Len(ob_mapped) }

IsComputedSelection(p) ==
    LET entity_field == find_by_name(ProductFields, cf_selection[p].name)
    IN  entity_field # None /\ entity_field[1].relation.kind = "Computed"

\* the log entries for the field at position p of entity i
HandledAt(i, p) == { k \in 1..Len(cf_log) : cf_log[k].item = i /\ cf_log[k].pos = p }

\* C12: a selected computed field is handled at most once per entity; when its access
\* solved to False the executor was not invoked and the entity still holds the SQL
\* step's value under the field's key; otherwise the executor was invoked, and once it
\* has returned the key holds the returned value. When post-processing ends with Ok,
\* every computed field of every entity object was handled in one of the two ways.
C12_UnauthorizedComputedFieldSkipped ==
    /\ \A k \in 1..Len(cf_log) :
          LET e == cf_log[k]
              out == output_name(cf_selection[e.pos])
              row == cf_items[e.item].map
          IN  IsComputedSelection(e.pos) =>
                /\ HandledAt(e.item, e.pos) = {k}
                /\ e.access.val = PredFalse =>
                      /\ ~e.invoked
                      /\ out \in DOMAIN row
                      /\ row[out] = cf_sql[e.item].map[out]
                /\ e.access.val # PredFalse =>
                      /\ e.invoked
                      /\ e.returned # None => row[out] = e.returned[1]
    /\ (cf_pc = "done" /\ cf_ret.tag = "Ok") =>
          \A i \in 1..Len(cf_items), p \in 1..Len(cf_selection) :
            (cf_sql[i].t = "obj" /\ IsComputedSelection(p)) =>
               \E k \in HandledAt(i, p) :
                  \/ cf_log[k].access.val = PredFalse /\ ~cf_log[k].invoked
                  \/ cf_log[k].invoked /\ cf_log[k].returned # None

\* C12 witness: of two computed fields of one entity, the one with access False kept its
\* SQL value and the other holds what its script returned
C12_Witness ==
    /\ cf_pc = "done" /\ cf_ret.tag = "Ok"
    /\ Len(cf_items) = 1 /\ Len(cf_log) = 2
    /\ cf_selection[1].name = "tax" /\ cf_selection[1].alias = Some("t")
    /\ cf_selection[2].name = "note"
    /\ cf_log[1].access = Ok(PredFalse) /\ ~cf_log[1].invoked
    /\ cf_log[2].access = Ok(PredTrue) /\ cf_log[2].invoked
    /\ cf_items[1].map["t"] = cf_sql[1].map["t"]
    /\ cf_items[1].map["note"] = JNum(8)
    /\ cf_sql[1].map["note"] = JNull

\* C13 as stated: for the row {"price":100,"tax":{"price":100}} the script of tax is
\* invoked with the parent snapshot {"price":100}.
C13_SnapshotIsDependenciesOnly ==
    \A k \in 1..Len(cf_log) :
        (/\ cf_log[k].invoked
         /\ output_name(cf_selection[cf_log[k].pos]) = "tax"
         /\ cf_log[k].obj = Map2("price", JNum(100), "tax", JObj(Map1("price", JNum(100)))))
        => cf_log[k].parent = Some(JObj(Map1("price", JNum(100))))

\* C13 amended: the parent snapshot is the entity's whole object, the placeholder under
\* the field's own key included, plus the placeholder's dependency values under the keys
\* the object does not have; a returned value replaces the value of the field's key and
\* no other. For {"price":100,"tax":{"price":100}} the snapshot is that same object.
C13_ParentSnapshot ==
    \A k \in 1..Len(cf_log) :
        LET e == cf_log[k]
            out == output_name(cf_selection[e.pos])
            placeholder == e.obj[out]
            promoted == IF placeholder.t = "obj" THEN DOMAIN placeholder.map ELSE {}
        IN  e.invoked =>
              /\ e.parent[1].t = "obj"
              /\ DOMAIN e.parent[1].map = DOMAIN e.obj \cup promoted
              /\ \A key \in DOMAIN e.obj : e.parent[1].map[key] = e.obj[key]
              /\ \A key \in promoted \ DOMAIN e.obj :
                    e.parent[1].map[key] = placeholder.map[key]
              /\ (k = Len(cf_log) /\ cf_pc = "field" /\ cf_pos = e.pos + 1
                                  /\ cf_item = e.item) =>
                    cf_items[e.item].map = map_insert(e.obj, out, e.returned[1])

\* C13 witness: tax of the row {"price":100,"tax":{"price":100}} was computed with the
\* whole row as parent, the script returned 8 and the row is {"price":100,"tax":8}
C13_Witness ==
    /\ Len(cf_log) = 2
    /\ cf_pc = "field" /\ cf_pos = 3
    /\ cf_log[2].invoked
    /\ cf_log[2].obj = Map2("price", JNum(100), "tax", JObj(Map1("price", JNum(100))))
    /\ cf_log[2].parent = Some(JObj(cf_log[2].obj))
    /\ cf_log[2].returned = Some(JNum(8))
    /\ cf_items[cf_item].map = Map2("price", JNum(100), "tax", JNum(8))

(***************************************************************************)
(* Properties of GET /healthz (checked under SpecHealthz)                  *)
(***************************************************************************)
PingOkPointer == <<"/", "data", "/", "ping", "/", "ok">>
HttpOk == [status |-> 200, body |-> JObj(Map1("status", JStr("ok")))]
\* the /healthz request has been answered
Answered == hz_pc = "done"
\* the router answered with a 2xx status and this JSON body
Answers2xx(json) ==
    /\ hz_response # None
    /\ is_success(hz_response[1].status_code)
    /\ hz_response[1].body = Ok(json)

\* C14 as stated: with EXO_HEALTHZ_QUERY = "{ ping { ok } }" and
\* EXO_HEALTHZ_RESPONSE_JSON_POINTER = "/data/ping/ok" configured, /healthz executes that
\* query, answers 200 to {"data":{"ping":{"ok":true}}} and 503 to
\* {"data":{"ping":{"ok":false}}}
C14_PointerScenarioAsStated ==
    (/\ hz_pc \in {"routing", "done"}
     /\ hz_env.EXO_HEALTHZ_QUERY = Some(PING_QUERY)
     /\ hz_env.EXO_HEALTHZ_RESPONSE_JSON_POINTER = Some(PingOkPointer))
    => /\ hz_settings.query = PING_QUERY
       /\ (Answered /\ Answers2xx(JObj(Ping(JBool(TRUE))))) => hz_http = Some(HttpOk)
       /\ (Answered /\ Answers2xx(JObj(Ping(JBool(FALSE))))) => hz_http[1].status = 503

\* C14 amended: when EXO_HEALTHZ_VARIABLES is also set, to a string that expands and
\* parses as JSON, the configured query is executed and the configured pointer is
\* checked: 200 {"status":"ok"} for {"data":{"ping":{"ok":true}}}, 503 for
\* {"data":{"ping":{"ok":false}}}. Whatever pointer the check is made with must resolve
\* to boolean true for a 200; a missing target or any other value yields 503.
C14_HealthzPointer ==
    /\ (/\ hz_pc \in {"routing", "done"}
        /\ hz_env.EXO_HEALTHZ_QUERY = Some(PING_QUERY)
        /\ hz_env.EXO_HEALTHZ_RESPONSE_JSON_POINTER = Some(PingOkPointer)
        /\ hz_env.EXO_HEALTHZ_VARIABLES # None
        /\ expand_env_placeholders(hz_env.EXO_HEALTHZ_VARIABLES[1], hz_env).tag = "Ok"
        /\ from_str(expand_env_placeholders(hz_env.EXO_HEALTHZ_VARIABLES[1], hz_env).val).tag
               = "Ok")
       => /\ hz_settings.query = PING_QUERY
          /\ hz_payload[1].map["query"] = JStr(PING_QUERY)
          /\ hz_settings.response_pointer = Some(PingOkPointer)
          /\ (Answered /\ Answers2xx(JObj(Ping(JBool(TRUE))))) => hz_http = Some(HttpOk)
          /\ (Answered /\ Answers2xx(JObj(Ping(JBool(FALSE))))) => hz_http[1].status = 503
    /\ (Answered /\ hz_settings.response_pointer # None) =>
          /\ hz_http[1].status \in {200, 503}
          /\ hz_http[1].status = 200 =>
                /\ hz_response # None
                /\ hz_response[1].body.tag = "Ok"
                /\ pointer(hz_response[1].body.val, hz_settings.response_pointer[1])
                       = Some(JBool(TRUE))

\* C14 witness: the scenario with EXO_HEALTHZ_VARIABLES = "{}" answered 503 to
\* {"data":{"ping":{"ok":false}}} and then 200 to {"data":{"ping":{"ok":true}}}
C14_Witness ==
    /\ Answered
    /\ hz_requests = 2
    /\ hz_env.EXO_HEALTHZ_QUERY = Some(PING_QUERY)
    /\ hz_env.EXO_HEALTHZ_RESPONSE_JSON_POINTER = Some(PingOkPointer)
    /\ hz_env.EXO_HEALTHZ_VARIABLES = Some(<<"{", "}">>)
    /\ hz_settings.query = PING_QUERY
    /\ Answers2xx(JObj(Ping(JBool(TRUE))))
    /\ hz_http = Some(HttpOk)

LifetimeLimit ==
    IF po_config.max_lifetime_secs = None THEN 900 ELSE po_config.max_lifetime_secs[1]

WellFormedStatus(s) ==
    /\ s.available <= s.size
    /\ s.size <= s.max_size
    /\ s.waiting >= 0
    /\ s.available >= 0

C18_SelectionDepthCheck ==
    va_check # None =>
        LET check == va_check[1]
            too_deep == /\ check.is_introspection # None
                        /\ \/ check.is_introspection = Some(TRUE)
                              /\ check.depth > va_limits.introspection
                           \/ check.is_introspection = Some(FALSE)
                              /\ check.depth > va_limits.normal
        IN  /\ too_deep => check.result = Err(SelectionSetTooDeep)
            /\ ~too_deep => check.result = Ok(TRUE)
            /\ too_deep => (va_pc = "done" /\ va_ret = Err(SelectionSetTooDeep))

\* C18 witness: an introspection selection at a depth equal to the introspection limit,
\* above the normal limit, was accepted
C18_Witness ==
    /\ va_limits = [normal |-> 1, introspection |-> 2]
    /\ va_check = Some([depth |-> 2, is_introspection |-> Some(TRUE), result |-> Ok(TRUE)])
    /\ va_pc = "selection"

RootTypeDefined ==
    \/ va_ty = "Query" /\ "Query" \in va_schema
    \/ va_ty = "Mutation" /\ "Mutation" \in va_schema

EnumRule(v, variable_name) ==
    IF v.t = "null" THEN Ok([c |-> "Null"])
    ELSE IF v.t = "str" /\ v.s \in {"RED", "GREEN"} THEN Ok([c |-> "Enum", name |-> v.s])
    ELSE Err([e |-> "MalformedVariable", name |-> variable_name])

\* the rule applied to the elements of an array: the list of the coerced elements, or
\* MalformedVariable when an element does not coerce
EnumListRule(list, variable_name) ==
    IF \A i \in 1..Len(list) : EnumRule(list[i], variable_name).tag = "Ok"
    THEN Ok([c |-> "List",
             list |-> [i \in 1..Len(list) |-> EnumRule(list[i], variable_name).val]])
    ELSE Err([e |-> "MalformedVariable", name |-> variable_name])

\* C20: a variable of an enum type coerces to Enum of the name for a string that is a
\* declared value, to Null for null, and fails with MalformedVariable for anything else;
\* so does each element of an array given for a list of enums and each enum-typed field
\* (and each element of a list-of-enum field) of an object given for an input object
C20_EnumCoercion ==
    (va_var # None /\ va_var[1].supplied # None) =>
        LET var == va_var[1]
            v == var.supplied[1]
        IN  /\ var.type = [base |-> "Named", name |-> "Color"] =>
                  var.value = EnumRule(v, var.name)
            /\ (var.type = [base |-> "List", elem |-> [base |-> "Named", name |-> "Color"]]
                /\ v.t = "arr") =>
                  var.value = EnumListRule(v.list, var.name)
            /\ (var.type = [base |-> "Named", name |-> "ColorInput"] /\ v.t = "obj") =>
                  /\ "color" \in DOMAIN v.map =>
                        IF EnumRule(v.map["color"], var.name).tag = "Err"
                        THEN var.value = EnumRule(v.map["color"], var.name)
                        ELSE var.value.tag = "Ok" =>
                                var.value.val.map["color"]
                                    = EnumRule(v.map["color"], var.name).val
                  /\ ("colors" \in DOMAIN v.map /\ v.map["colors"].t = "arr") =>
                        IF EnumListRule(v.map["colors"].list, var.name).tag = "Err"
                        THEN var.value = EnumListRule(v.map["colors"].list, var.name)
                        ELSE var.value.tag = "Ok" =>
                                var.value.val.map["colors"]
                                    = EnumListRule(v.map["colors"].list, var.name).val

\* C20 witness: ["RED", null, "GREEN"] given for [Color] coerced to [RED, null, GREEN]
C20_Witness ==
    /\ va_var # None
    /\ va_var[1].type = [base |-> "List", elem |-> [base |-> "Named", name |-> "Color"]]
    /\ va_var[1].supplied = Some(JArr(<<JStr("RED"), JNull, JStr("GREEN")>>))
    /\ va_var[1].value = Ok([c |-> "List",
                             list |-> << [c |-> "Enum", name |-> "RED"], [c |-> "Null"],
                                         [c |-> "Enum", name |-> "GREEN"] >>])
    /\ va_pc = "variables"

(***************************************************************************)
(* C21 (checked under SpecTx): after any sequence of add_step calls,       *)
(* needs_transaction() is true if and only if at least two steps were      *)
(* added; it is false for the empty script and for a script of one step.   *)
(* ids holds one entry per add_step call made.                             *)
(***************************************************************************)
C21_NeedsTransaction ==
    /\ needs_transaction(steps) <=> Len(ids) >= 2
    /\ Len(ids) \in {0, 1} => ~needs_transaction(steps)

\* a script built by two add_step calls, executed to its end
C21_Witness ==
    /\ Len(ids) = 2
    /\ needs_transaction(steps)
    /\ txpc = "done"

(***************************************************************************)
(* C22 (checked under SpecTx): a Template step resolves against the rows   *)
(* of its prior step into concrete operations, one per row, and executes   *)
(* them in order.  The rows of every operation but the last are dropped    *)
(* and the next operation is issued; the rows of the last one are the      *)
(* step's result; an operation that fails ends the step and execute with   *)
(* that error and no operation after it is issued; a template that         *)
(* resolves to no operation yields an empty row list and issues no query.  *)
(* rq.stmt is <<step, position of the operation among the step's>>.        *)
(***************************************************************************)
C22_InTemplate == idx < Len(steps) /\ steps[idx + 1].kind = "Template"

C22_Operations == Len(results[steps[idx + 1].prev + 1])

C22_TemplateStarts ==
    (txpc = "loop" /\ C22_InTemplate) =>
        IF C22_Operations = 0
        THEN /\ results' = Append(results, <<>>)
             /\ rq' = rq
             /\ txpc' = "loop"
             /\ idx' = idx + 1
        ELSE /\ txpc' = "query"
             /\ Len(pending') = C22_Operations
             /\ \A i \in 1..Len(pending') : pending'[i] = steps[idx + 1].op
             /\ rq'.stmt = <<steps[idx + 1].tag, 1>>
             /\ rq'.op = steps[idx + 1].op
             /\ results' = results

C22_TemplateOperationEnds ==
    (txpc = "query" /\ C22_InTemplate) =>
        LET k == rq.stmt[2]
            n == C22_Operations
        IN  /\ 1 <= k /\ k <= n
            /\ Len(pending) = n - k + 1
            /\ txpc' = "query" =>
                  \* the rows of operation k are dropped and operation k+1 is issued
                  /\ k < n
                  /\ rq'.stmt = <<steps[idx + 1].tag, k + 1>>
                  /\ rq'.op = steps[idx + 1].op
                  /\ results' = results
                  /\ ret' = ret
            /\ txpc' = "loop" =>
                  \* the last operation returned: its rows are the result of the step
                  /\ k = n
                  /\ Len(results') = Len(results) + 1
                  /\ SubSeq(results', 1, Len(results)) = results
                  /\ \A i \in 1..Len(results'[Len(results')]) :
                        results'[Len(results')][i].stmt = <<steps[idx + 1].tag, n>>
                  /\ rq'.out = Ok(results'[Len(results')])
            /\ txpc' = "done" =>
                  \* operation k failed: its error is returned, operation k+1 is not issued
                  /\ ret'.tag = "Err"
                  /\ ret' = rq'.out
                  /\ rq'.stmt = rq.stmt
                  /\ rq'.calls = rq.calls
                  /\ results' = results
                  /\ pending' = pending

\* once execute has returned, nothing of the script runs any more
C22_NothingAfterReturn == txpc = "done" => ~ENABLED TxNext

\* C22: every step of a Template step is as described above, and nothing of the
\* script runs once execute has returned
C22_TemplateStep ==
    /\ [][C22_TemplateStarts /\ C22_TemplateOperationEnds]_vars
    /\ []C22_NothingAfterReturn

\* a template ran two operations and its result is the rows of the second; the
\* template after it resolved to no operation and produced the empty row list
C22_Witness ==
    /\ Len(started) = 3
    /\ steps[2].kind = "Template" /\ steps[3].kind = "Template"
    /\ steps[2].prev = 0 /\ steps[3].prev = 1
    /\ Len(results) = 3
    /\ Len(results[1]) = 2
    /\ results[2] = <<>>
    /\ results[3] = <<>>
    /\ started[3].out = Ok(<<>>)
    /\ rq.stmt = <<1, 2>>

(***************************************************************************)
(* C23 (checked under SpecTx): when a step of the script fails, execute    *)
(* returns the error of that step at once.  A failed step is the last      *)
(* step that started, execute has returned with its error (the database    *)
(* error of its query, or the Precheck error), the context holds the       *)
(* results of the steps before it and no entry for it, no rows are         *)
(* returned and nothing of the script runs afterwards.                     *)
(***************************************************************************)
C23_StepError ==
    IF rq.out.tag = "Err"
    THEN Err(with_context(Delegate(rq.lastErr), "Database operation failed"))
    ELSE Err(Precheck(Len(rq.out.val)))

\* C23: a failed step is the last step started, execute has returned its error, the
\* context holds no entry for it and nothing runs afterwards
C23_FailedStepEndsExecute ==
    \A j \in 1..Len(started) :
        started[j].out.tag = "Err" =>
            /\ j = Len(started)
            /\ started[j].tag = steps[j].tag
            /\ rq.stmt[1] = steps[j].tag
            /\ txpc = "done"
            /\ ret = started[j].out
            /\ ret = C23_StepError
            /\ ret.tag # "Ok"
            /\ Len(results) = j - 1
            /\ \A i \in 1..(j - 1) : started[i].out = Ok(results[i])
            /\ results = started[j].ctx
            /\ ~ENABLED TxNext

\* the second of three steps failed after the first returned rows: execute has
\* returned the error, the context holds the first result only
C23_Witness ==
    /\ Len(steps) = 3
    /\ Len(started) = 2
    /\ started[2].out.tag = "Err"
    /\ Len(results) = 1
    /\ Len(results[1]) = 2
    /\ ret = started[2].out
    /\ rq.lastErr.db
    /\ txpc = "done"

(***************************************************************************)
(* C24 (checked under SpecResolve): the per-request transaction lock is    *)
(* acquired without contention.  Whenever resolve_operation calls try_lock *)
(* on the transaction_holder of the request the lock is free, also when    *)
(* resolve_operation is entered for the request while an earlier           *)
(* activation is in its computed-field post-processing, so the unwrap of   *)
(* try_lock never panics.                                                  *)
(* The code does not satisfy this: the MutexGuard `tx` of an activation    *)
(* lives until resolve_operation returns, which is after                   *)
(* apply_computed_fields_to_body; a script that calls the injected         *)
(* Exograph client enters resolve_operation while the guard is held.       *)
(***************************************************************************)
C24_LockAcquiredWithoutContention ==
    /\ \A i \in 1..Len(lock_log) : lock_log[i]
    /\ request # "panicked"

(***************************************************************************)
(* C25 (checked under SpecSentry): Sentry initialization is once-only.     *)
(* Over any number of calls of init(env), calls racing on several threads  *)
(* included, sentry::init of the SDK is invoked at most once, and a call   *)
(* made once the guard is set returns without initializing again.          *)
(* The code does not satisfy the first part: line 13 reads SENTRY_GUARD    *)
(* and line 50 sets it, and sentry::init at line 49 runs between the two   *)
(* outside any lock, so two threads that both read the empty guard both    *)
(* initialize the SDK; the second set fails and its guard is dropped.      *)
(***************************************************************************)
C25_SentryInitOnce ==
    /\ se_inits <= 1
    /\ \A t \in SentryThreads : se_threads[t].late => se_threads[t].pc = "idle"
    /\ se_guard # None => ~se_guard[1].late

(***************************************************************************)
(* C26 (checked under SpecColumnPath): to_column_path(p, link).  When the  *)
(* last link of p is a leaf and link is a relation, the result is p        *)
(* without its trailing leaf followed by the relation; when link is a      *)
(* leaf the result ends in that leaf; to_column_path(p, None) = p;         *)
(* to_column_path(None, link) is the one-link path of link and             *)
(* to_column_path(None, None) is None.  cp_call is the last call made.     *)
(***************************************************************************)
C26_ToColumnPath ==
    cp_call # <<>> =>
        LET p == cp_call.parent
            link == cp_call.link
            r == cp_call.result
        IN  /\ (/\ p # None
                /\ link # None
                /\ p[1][Len(p[1])].link = "Leaf"
                /\ link[1].link = "Relation")
               => r = Some(SubSeq(p[1], 1, Len(p[1]) - 1) \o <<link[1]>>)
            /\ (link # None /\ link[1].link = "Leaf")
               => (r # None /\ r[1] # <<>> /\ r[1][Len(r[1])] = link[1])
            /\ link = None => r = p
            /\ (p = None /\ link # None) => r = Some(<<link[1]>>)
            /\ (p = None /\ link = None) => r = None

\* the case of the unit test: a relation then a leaf, extended by a second relation,
\* is the path of the two relations
C26_Witness ==
    /\ cp_call # <<>>
    /\ cp_call.parent = Some(<<Relation(1), Leaf(1)>>)
    /\ cp_call.link = Some(Relation(2))
    /\ cp_call.result = Some(<<Relation(1), Relation(2)>>)
    /\ cp_path = cp_call.result

(***************************************************************************)
(* C27 (checked under SpecColumnPath): composition never produces a leaf   *)
(* followed by another link.  Starting from no path and applying           *)
(* to_column_path any number of times with arbitrary relation or leaf      *)
(* links, every resulting path is non-empty and holds a leaf only as its   *)
(* last link.                                                              *)
(***************************************************************************)
C27_LeafOnlyLast ==
    cp_path # None =>
        /\ Len(cp_path[1]) >= 1
        /\ \A i \in 1..(Len(cp_path[1]) - 1) : cp_path[1][i].link # "Leaf"
        /\ \A i \in 1..Len(cp_path[1]) : cp_path[1][i].link \in {"Leaf", "Relation"}

\* a leaf was composed onto a path that ended in another leaf: one leaf remains
C27_Witness ==
    /\ cp_call # <<>>
    /\ cp_call.parent = Some(<<Relation(1), Leaf(1)>>)
    /\ cp_call.link = Some(Leaf(2))
    /\ cp_path = Some(<<Relation(1), Leaf(2)>>)

(***************************************************************************)
(* C28 (checked under SpecOrderBy): when to_sql returns Ok for an object   *)
(* or list argument, the expression list of the result is the              *)
(* concatenation of the expression lists of the elements' results in the   *)
(* order of the argument's elements, and its predicate is the              *)
(* left-associative AND of their predicates starting from True: with one   *)
(* element it is that element's predicate, and it is False as soon as one  *)
(* element's predicate is False.  ob_mapped[i] is the result for the i-th  *)
(* element of the argument.                                                *)
(***************************************************************************)
RECURSIVE C28_Concat(_)
C28_Concat(n) ==
    IF n = 0 THEN <<>> ELSE C28_Concat(n - 1) \o ob_mapped[n].res.val.order_by

RECURSIVE C28_AndLeft(_)
C28_AndLeft(n) ==
    IF n = 0 THEN PredTrue
    ELSE AbstractPredicate_and(C28_AndLeft(n - 1), ob_mapped[n].res.val.predicate)

\* C28: the combined order-by is the concatenation of the elements' expressions in
\* element order and the left-associative AND of their predicates from True
C28_CombineInOrder ==
    (obpc = "done" /\ ob_ret.tag = "Ok") =>
        /\ \A i \in 1..Len(ob_mapped) : ob_mapped[i].res.tag = "Ok"
        /\ ob_ret.val.order_by = C28_Concat(Len(ob_mapped))
        /\ ob_ret.val.predicate = C28_AndLeft(Len(ob_mapped))
        /\ Len(ob_mapped) = 0 => ob_ret.val = OrderByComputation(<<>>, PredTrue)
        /\ Len(ob_mapped) = 1 => ob_ret.val.predicate = ob_mapped[1].res.val.predicate
        /\ (\E i \in 1..Len(ob_mapped) : ob_mapped[i].res.val.predicate = PredFalse)
              => ob_ret.val.predicate = PredFalse
        /\ (\A i \in 1..Len(ob_mapped) : ob_mapped[i].res.val.predicate = PredTrue)
              => ob_ret.val.predicate = PredTrue

\* two elements with different expressions and residual predicates: the expressions
\* come out in element order and the predicate is the AND of the two, first one left
C28_Witness ==
    /\ obpc = "done"
    /\ ob_ret.tag = "Ok"
    /\ Len(ob_mapped) = 2
    /\ Len(ob_mapped[1].res.val.order_by) = 1
    /\ Len(ob_mapped[2].res.val.order_by) = 1
    /\ ob_ret.val.order_by[1] # ob_ret.val.order_by[2]
    /\ ob_ret.val.order_by[1] = ob_mapped[1].res.val.order_by[1]
    /\ ob_ret.val.predicate.kind = "And"
    /\ ob_ret.val.predicate.lhs = ob_mapped[1].res.val.predicate
    /\ ob_ret.val.predicate.lhs # ob_ret.val.predicate.rhs

(***************************************************************************)
(* C29 (checked under SpecTransitive): transitive expansion of a relation  *)
(* path with steps s1..sn.  For n = 1 the element is a SubSelect.  For     *)
(* n >= 2 it is the wrapper of s1 around a SubSelect: JsonArrayExtract     *)
(* with key "__transitive_value" when s1 is an unbounded one-to-many step, *)
(* JsonExtract with path ["__transitive_value"] otherwise; the select of   *)
(* each step but the last has as its selection the single alias            *)
(* "__transitive_value", with cardinality Many only for an unbounded       *)
(* one-to-many step, and the nesting holds exactly n sub-selects, in step  *)
(* order.  An empty step list gives a Generic error.                       *)
(***************************************************************************)
C29_UnboundedOneToMany(step) ==
    step.relation_id.kind = "OneToMany" /\ step.cardinality = "Unbounded"

\* the element of step i, down to the last step
RECURSIVE C29_Nesting(_, _, _)
C29_Nesting(elem, tsteps, i) ==
    IF i = Len(tsteps)
    THEN /\ elem.type = "SubSelect"
         /\ elem.relation_id = tsteps[i].relation_id
         /\ elem.select.table_id = tsteps[i].entity_id
         /\ elem.select.selection.json = <<>>
    ELSE /\ IF C29_UnboundedOneToMany(tsteps[i])
            THEN elem.type = "JsonArrayExtract" /\ elem.key = "__transitive_value"
            ELSE elem.type = "JsonExtract" /\ elem.path = <<"__transitive_value">>
         /\ elem.source.type = "SubSelect"
         /\ elem.source.relation_id = tsteps[i].relation_id
         /\ elem.source.select.table_id = tsteps[i].entity_id
         /\ Len(elem.source.select.selection.json) = 1
         /\ elem.source.select.selection.json[1].alias = "__transitive_value"
         /\ elem.source.select.selection.cardinality =
               (IF C29_UnboundedOneToMany(tsteps[i]) THEN "Many" ELSE "One")
         /\ C29_Nesting(elem.source.select.selection.json[1].column, tsteps, i + 1)

\* C29: the element map_transitive_field returns for n steps is the nesting above;
\* no step gives a Generic error
C29_TransitiveExpansion ==
    tr_pc = "done" =>
        /\ tr_transitive.steps = <<>> =>
              (tr_ret.res.tag = "Err" /\ tr_ret.res.err.type = "Generic")
        /\ (tr_transitive.steps # <<>> /\ tr_ret.res.tag = "Ok") =>
              /\ Len(tr_transitive.steps) = 1 => tr_ret.res.val.type = "SubSelect"
              /\ Len(tr_transitive.steps) >= 2 =>
                    tr_ret.res.val.type \in {"JsonArrayExtract", "JsonExtract"}
              /\ C29_Nesting(tr_ret.res.val, tr_transitive.steps, 1)

\* three steps, the first an unbounded one-to-many step, the second a many-to-one
\* step: an array extraction around a value extraction around the bottom sub-select
C29_Witness ==
    /\ tr_pc = "done"
    /\ Len(tr_transitive.steps) = 3
    /\ C29_UnboundedOneToMany(tr_transitive.steps[1])
    /\ tr_transitive.steps[2].relation_id.kind = "ManyToOne"
    /\ tr_ret.res.tag = "Ok"
    /\ tr_ret.res.val.type = "JsonArrayExtract"
    /\ tr_ret.res.val.source.select.selection.cardinality = "Many"
    /\ tr_ret.res.val.source.select.selection.json[1].column.type = "JsonExtract"

(***************************************************************************)
(* C30 (checked under SpecPostprocess): needs_postprocess(entity,          *)
(* selection) is true exactly when the selection contains a computed       *)
(* field, or an embedded field selected with subfields, or a relation      *)
(* field (many-to-one, one-to-many or transitive) whose nested selection   *)
(* needs post-processing, or the representation of the entity is           *)
(* JSON-like; when it is false, or the body is absent,                     *)
(* apply_computed_fields_to_body leaves the body unchanged and invokes no  *)
(* script.                                                                 *)
(* The code does not satisfy the first part: needs_postprocess looks into  *)
(* the nested selection of many-to-one and one-to-many fields only, so a   *)
(* computed field selected under a transitive relation is not detected.    *)
(***************************************************************************)
RECURSIVE C30_Needed(_, _)
C30_Needed(entity, sel) ==
    \/ entity \in np_json_like
    \/ \E i \in 1..Len(sel) :
         \E j \in 1..Len(entity_types[entity]) :
            LET f == entity_types[entity][j]
            IN  /\ f.name = sel[i].name
                /\ \/ f.relation = "Computed"
                   \/ f.relation = "Embedded" /\ sel[i].subfields # <<>>
                   \/ /\ f.relation \in {"ManyToOne", "OneToMany", "Transitive"}
                      /\ C30_Needed(f.typ.type_name, sel[i].subfields)

\* C30: needs_postprocess returns true exactly in the cases of C30_Needed; when it
\* returns false or the body is absent the body is unchanged and no script runs
C30_NeedsPostprocess ==
    np_needs # None =>
        /\ np_needs[1] <=> C30_Needed("Concert", np_selection)
        /\ (np_pc = "done" /\ (~np_needs[1] \/ np_raw = None)) =>
              (np_body = np_raw /\ np_scripts = 0 /\ np_ret = Ok(<<>>))

(***************************************************************************)
(* Properties of retry_backoff_ms (checked under SpecBackoff)              *)
(***************************************************************************)
\* min(base * 2^(k-1), max) over the unbounded integers
C5_Capped(k, base, max) == Min(base * 2^(k - 1), max)

\* C5: for every attempt k >= 1, base and max the sleep is in [capped/2, capped] with
\* capped = min(base*2^(k-1), max) computed without overflow, it never exceeds max and
\* it fits the word; with base 50, max 500, k = 1 it is in [25, 50].
C5_BackoffBounded ==
    bk.pc = "ret" =>
        LET capped == C5_Capped(bk.attempt, bk.base_ms, bk.max_ms)
        IN  /\ capped \div 2 <= bk.sleep
            /\ bk.sleep <= capped
            /\ bk.sleep <= bk.max_ms
            /\ bk.sleep <= U64_MAX
            /\ (bk.attempt = 1 /\ bk.base_ms = 50 /\ bk.max_ms = 500)
                  => (25 <= bk.sleep /\ bk.sleep <= 50)

\* C5 witness: the exponential saturated (base * 2^(k-1) exceeds the word) and the
\* sleep was drawn strictly inside the interval
C5_Witness ==
    /\ bk.pc = "ret"
    /\ bk.base_ms * 2^(bk.attempt - 1) > U64_MAX
    /\ bk.max_ms = U64_MAX
    /\ bk.sleep > U64_MAX \div 2
    /\ bk.sleep < U64_MAX

====
